---- MODULE Spec2Model ----
(***************************************************************************)
(* Verification model of the stock-exchange-ui client.                     *)
(*                                                                         *)
(* Part 1: WebSocketService (src/src/services/webSocketService.ts), the    *)
(* process-wide singleton multiplexing price and chart topics over one     *)
(* STOMP client, together with the STOMP transport it drives.              *)
(* Part 2: HomePage (src/src/app/page.tsx), the timeframe baseline state   *)
(* driven by series loads, live ticks and price polls.                     *)
(***************************************************************************)
EXTENDS Integers, Sequences, FiniteSets, Bags, TLC

(***************************************************************************)
(* Bounds of the model.                                                    *)
(***************************************************************************)
MaxClients == 2
MaxTimers == 1
NumCallbacks == 2
NumChartCallbacks == 1
NumObservers == 2
MaxTicks == 1
MaxSeriesLen == 2
MaxPrice == 2
MaxLoads == 2
MaxCharts == 3
MaxSearches == 2
MaxResults == 2
MaxOrderCalls == 2
MaxChecks == 2
MaxRefreshes == 2
MaxBlurTimers == 2

(***************************************************************************)
(* Strings are sequences of characters so that toUpperCase() is computed.  *)
(***************************************************************************)
ToUpperChar(ch) ==
    CASE ch = "a" -> "A"
      [] ch = "b" -> "B"
      [] ch = "m" -> "M"
      [] ch = "r" -> "R"
      [] OTHER -> ch

ToUpperCase(str) == [i \in 1..Len(str) |-> ToUpperChar(str[i])]

\* symbol arguments: the empty (falsy) string and two spellings of one ticker
Symbols == {<<>>, <<"a">>, <<"A">>}

UpperSymbols == {ToUpperCase(s) : s \in Symbols \ {<<>>}}

\* "" is the empty (falsy) timeframe argument
Timeframes == {"", "1d"}

Callbacks == 1..NumCallbacks
ChartCallbacks == 1..NumChartCallbacks
Observers == 1..NumObservers
ClientIds == 1..MaxClients

\* `/topic/prices/${SYMBOL}`
PriceTopic(upper) == [kind |-> "prices", symbol |-> upper, timeframe |-> ""]

\* `/topic/charts/${SYMBOL}/${timeframe}`
ChartTopic(upper, tf) == [kind |-> "charts", symbol |-> upper, timeframe |-> tf]

\* `${SYMBOL}/${timeframe}`
ChartKey(upper, tf) == [symbol |-> upper, timeframe |-> tf]

ChartKeys == {ChartKey(u, tf) : u \in UpperSymbols, tf \in Timeframes \ {""}}

PriceTopics == {PriceTopic(u) : u \in UpperSymbols}

ChartTopics == {ChartTopic(k.symbol, k.timeframe) : k \in ChartKeys}

\* the tickers the page may show: its own selections and what SymbolSearch
\* can hand to onSymbolSelect
FeedSymbols ==
    {<<"A", "R", "M">>, <<"B">>, <<"A">>, <<"A", "B">>, <<"F">>,
     <<"A", "B", "C">>}

Topics == PriceTopics \cup ChartTopics \cup {PriceTopic(u) : u \in FeedSymbols}

\* message bodies: JSON text of a payload, or text that JSON.parse rejects
StockPriceOf(symbol, price) == [symbol |-> symbol, price |-> price]
NoPayload == StockPriceOf(<<>>, 0)
Payloads == {StockPriceOf(<<"A">>, 1), StockPriceOf(<<"A">>, 2)}
Bodies ==
    [json : {TRUE}, value : Payloads] \cup [json : {FALSE}, value : {NoPayload}]

\* variant: a parser that accepts any text
JSONParse_Lenient(body) == [ok |-> TRUE, value |-> body.value]

\* JSON.parse: a value, or a SyntaxError
JSONParse(body) ==
    IF body.json THEN [ok |-> TRUE, value |-> body.value]
    ELSE [ok |-> FALSE, value |-> NoPayload]

NoClient == 0

(***************************************************************************)
(* Finite maps and insertion-ordered sets (JS Map / Set).                  *)
(***************************************************************************)
MapPut(m, k, v) == [x \in (DOMAIN m) \cup {k} |-> IF x = k THEN v ELSE m[x]]

MapDelete(m, k) == [x \in (DOMAIN m) \ {k} |-> m[x]]

EmptyMap == [x \in {} |-> <<>>]

Range(seq) == {seq[i] : i \in 1..Len(seq)}

SetAdd(seq, x) == IF x \in Range(seq) THEN seq ELSE Append(seq, x)

SetDelete(seq, x) == SelectSeq(seq, LAMBDA y : y # x)

VARIABLES
    client,                   \* WebSocketService.client (NoClient = null)
    subscriptions,            \* keys of WebSocketService.subscriptions
    connected,                \* WebSocketService.connected
    connectionPromise,        \* WebSocketService.connectionPromise (NoClient = null)
    priceUpdateCallbacks,     \* Map upper symbol -> Set of callbacks
    chartUpdateCallbacks,     \* Map topicKey -> Set of callbacks
    connectionStateCallbacks, \* Set of state observers
    clients,                  \* the STOMP clients created by init()
    timers,                   \* pending setTimeout(() => this.init(), 1000)
    priceUnsubs,              \* unsubscribe closures handed out by onPriceUpdate
    chartUnsubs,              \* unsubscribe closures handed out by onChartUpdate
    stateUnsubs,              \* unsubscribe closures handed out by onConnectionStateChange
    stateCalls,               \* observer invocations made by the last step
    priceCalls,               \* price listener invocations made by the last step
    chartCalls,               \* chart listener invocations made by the last step
    lastMessage,              \* the message the last step handled, if any
    microtasks,               \* continuations of init().then(...) queued on a
                              \* resolved promise, not yet run
    ui,                       \* HomePage: the React state of the last render
    deps,                     \* HomePage: dependency values each effect last ran with
    loads,                    \* HomePage: series loads in flight
    checks,                   \* HomePage: market status checks in flight, a
                              \* bag of the closures that started them
    refreshes,                \* HomePage: refreshPrice calls in flight, a bag
                              \* of the closures that started them
    marketApi,                \* whether @/services/api exports marketApi
    intervals,                \* HomePage: active setInterval timers of the market effect
    nextTick,                 \* identity of the next StockPrice object the hook stores
    nextLoad,                 \* number of the next series load
    tickLog,                  \* history: the timeframe selected when each
                              \* tick was received, the ticks applied so far
    view,                     \* StockChart: props, state and refs
    drawingTimers,            \* StockChart: pending animation step timers
    updateTimers,             \* StockChart: pending indicator timers
    nextChart,                \* StockChart on its own: number of the next
                              \* change of its props
    search,                   \* SymbolSearch: state, debounce and blur timers
    searchRequests,           \* SymbolSearch: search requests in flight
    order,                    \* orderModalOpen of the page and the state of OrderForm
    orderCalls                \* OrderForm: asynchronous handlers in progress

wsVars == <<client, subscriptions, connected, connectionPromise,
            priceUpdateCallbacks, chartUpdateCallbacks,
            connectionStateCallbacks, clients, timers,
            priceUnsubs, chartUnsubs, stateUnsubs,
            stateCalls, priceCalls, chartCalls, lastMessage, microtasks>>

pageVars == <<ui, deps, loads, checks, refreshes, marketApi, intervals, nextTick, nextLoad,
              tickLog>>

viewVars == <<view, drawingTimers, updateTimers, nextChart>>

searchVars == <<search, searchRequests>>

orderVars == <<order, orderCalls>>

widgetVars == <<searchVars, orderVars>>

vars == <<wsVars, pageVars, viewVars, widgetVars>>

(***************************************************************************)
(* The STOMP transport (@stomp/stompjs Client) as the service drives it.   *)
(* state: "unused"     not created yet                                     *)
(*        "connecting" activated, no STOMP session (first attempt, or      *)
(*                     waiting for the automatic reconnectDelay retry)     *)
(*        "connected"  STOMP session established                           *)
(*        "inactive"   deactivate() was called                             *)
(* subs[t]: SUBSCRIBE frames sent for topic t on the current session.      *)
(* promise/thens: the promise init() created together with this client and *)
(* the .then() continuations still waiting on it.  A continuation is the   *)
(* topic its subscribeToPrice/subscribeToChart call is for; these calls    *)
(* are idempotent, so the pending ones are kept as a set.                  *)
(* discPending: deactivate() sent DISCONNECT, its receipt (onDisconnect)   *)
(* has not arrived.                                                        *)
(* A deactivated client is referenced by nothing: reconnect() and          *)
(* disconnect() null this.client and this.connectionPromise, and the       *)
(* promise of a client that reached this.client is settled, with no        *)
(* continuation waiting.  Its promise is therefore not tracked further.    *)
(***************************************************************************)
NoSubs == [t \in Topics |-> 0]

UnusedClient ==
    [state |-> "unused", subs |-> NoSubs, promise |-> "none",
     thens |-> {}, discPending |-> FALSE]

\* new Client({...}); client.activate()
NewClient ==
    [state |-> "connecting", subs |-> NoSubs, promise |-> "pending",
     thens |-> {}, discPending |-> FALSE]

\* a client after deactivate(), once no receipt is outstanding
InactiveClient ==
    [state |-> "inactive", subs |-> NoSubs, promise |-> "none",
     thens |-> {}, discPending |-> FALSE]

\* client.deactivate(): a DISCONNECT frame is sent, and its receipt awaited,
\* only when there is a STOMP session
Deactivate(cl) == [InactiveClient EXCEPT !.discPending = (cl.state = "connected")]

IsActive(cl) == cl.state \in {"connecting", "connected"}

FreeClientIds == {c \in ClientIds : clients[c].state = "unused"}

NextClientId == CHOOSE c \in FreeClientIds : \A d \in FreeClientIds : c <= d

(***************************************************************************)
(* subscribeToPrice / subscribeToChart / resubscribeAll operate on the     *)
(* service fields they read and write, gathered in a record                *)
(* [client, connected, subscriptions, clients].                            *)
(***************************************************************************)
Svc == [client |-> client, connected |-> connected,
        subscriptions |-> subscriptions, clients |-> clients]

\* this.client.subscribe(topic, handler); this.subscriptions.set(topic, ...)
\* client.subscribe throws when the client has no STOMP session; the
\* exception leaves the map untouched.
SubscribeTopic(s, topic) ==
    IF s.client = NoClient \/ ~s.connected THEN s
    ELSE IF topic \in s.subscriptions THEN s
    ELSE IF s.clients[s.client].state # "connected" THEN s
    ELSE [s EXCEPT !.clients[s.client].subs[topic] = @ + 1,
                   !.subscriptions = @ \cup {topic}]

subscribeToPrice(s, symbol) == SubscribeTopic(s, PriceTopic(ToUpperCase(symbol)))

subscribeToChart(s, symbol, timeframe) ==
    SubscribeTopic(s, ChartTopic(ToUpperCase(symbol), timeframe))

RECURSIVE SubscribePrices(_, _)
SubscribePrices(s, keys) ==
    IF keys = {} THEN s
    ELSE LET k == CHOOSE x \in keys : TRUE
         IN SubscribePrices(subscribeToPrice(s, k), keys \ {k})

RECURSIVE SubscribeCharts(_, _)
SubscribeCharts(s, keys) ==
    IF keys = {} THEN s
    ELSE LET k == CHOOSE x \in keys : TRUE
         IN SubscribeCharts(subscribeToChart(s, k.symbol, k.timeframe), keys \ {k})

resubscribeAll(s) ==
    SubscribeCharts(SubscribePrices(s, DOMAIN priceUpdateCallbacks),
                    DOMAIN chartUpdateCallbacks)

\* the continuations of init().then(...) registered by onPriceUpdate and
\* onChartUpdate, run when the promise is (or becomes) resolved
RECURSIVE RunThens(_, _)
RunThens(s, thens) ==
    IF thens = {} THEN s
    ELSE LET t == CHOOSE x \in thens : TRUE
         IN RunThens(SubscribeTopic(s, t), thens \ {t})

\* variant: the observers are not told
notifyConnectionState_Silent(value) == [o \in Observers |-> <<>>]

\* this.connectionStateCallbacks.forEach(callback => callback(connected))
notifyConnectionState(value) ==
    [o \in Observers |->
        IF o \in Range(connectionStateCallbacks) THEN <<value>> ELSE <<>>]

NoStateCalls == [o \in Observers |-> <<>>]
NoPriceCalls == [cb \in Callbacks |-> <<>>]
NoChartCalls == [cb \in ChartCallbacks |-> <<>>]
NoMessage ==
    [present |-> FALSE,
     topic |-> [kind |-> "none", symbol |-> <<>>, timeframe |-> ""],
     body |-> [json |-> FALSE, value |-> NoPayload]]

isConnected == connected

WSInit ==
    /\ client = NoClient
    /\ subscriptions = {}
    /\ connected = FALSE
    /\ connectionPromise = NoClient
    /\ priceUpdateCallbacks = EmptyMap
    /\ chartUpdateCallbacks = EmptyMap
    /\ connectionStateCallbacks = <<>>
    /\ clients = [c \in ClientIds |-> UnusedClient]
    /\ timers = 0
    /\ priceUnsubs = {}
    /\ chartUnsubs = {}
    /\ stateUnsubs = {}
    /\ stateCalls = NoStateCalls
    /\ priceCalls = NoPriceCalls
    /\ chartCalls = NoChartCalls
    /\ lastMessage = NoMessage
    /\ microtasks = {}

(***************************************************************************)
(* init(): returns the promise in connectionPromise; creates and activates *)
(* a client only when there is none.  The promise is named by the id of    *)
(* the client created with it.  InitResult is the promise returned and     *)
(* InitClients the transport afterwards.                                   *)
(***************************************************************************)
\* variant: the early return on an existing promise is missing
InitCreates_Always == TRUE

InitCreates == connectionPromise = NoClient

InitResult == IF InitCreates THEN NextClientId ELSE connectionPromise

InitClients ==
    IF InitCreates THEN [clients EXCEPT ![NextClientId] = NewClient]
    ELSE clients

InitEnabled == InitCreates => FreeClientIds # {}

\* webSocketService.init().catch(...) as called by useStockWebSocket
init ==
    /\ InitEnabled
    /\ connectionPromise' = InitResult
    /\ clients' = InitClients
    /\ stateCalls' = NoStateCalls
    /\ priceCalls' = NoPriceCalls
    /\ chartCalls' = NoChartCalls
    /\ lastMessage' = NoMessage
    /\ UNCHANGED <<client, subscriptions, connected, priceUpdateCallbacks,
                   chartUpdateCallbacks, connectionStateCallbacks, timers,
                   priceUnsubs, chartUnsubs, stateUnsubs>>
    /\ UNCHANGED microtasks
    /\ UNCHANGED <<pageVars, viewVars, widgetVars>>

\* setTimeout(() => this.init(), 1000) scheduled by reconnect() fires
ReconnectTimer ==
    /\ microtasks = {}
    /\ timers > 0
    /\ InitEnabled
    /\ timers' = timers - 1
    /\ connectionPromise' = InitResult
    /\ clients' = InitClients
    /\ stateCalls' = NoStateCalls
    /\ priceCalls' = NoPriceCalls
    /\ chartCalls' = NoChartCalls
    /\ lastMessage' = NoMessage
    /\ UNCHANGED <<client, subscriptions, connected, priceUpdateCallbacks,
                   chartUpdateCallbacks, connectionStateCallbacks,
                   priceUnsubs, chartUnsubs, stateUnsubs>>
    /\ UNCHANGED microtasks
    /\ UNCHANGED <<pageVars, viewVars, widgetVars>>

(***************************************************************************)
(* this.init().then(() => subscribe...(topic)).catch(...): init(), then    *)
(* the continuation is registered on the promise returned.  A continuation *)
(* never runs inside the call: on a resolved promise it is queued as a     *)
(* microtask, which runs when the code of the current task has returned;   *)
(* on a pending promise it waits for the promise; on a rejected promise    *)
(* only the catch handler runs, which logs.                                *)
(***************************************************************************)
InitThenSubscribe(topic) ==
    LET p == InitResult
        cls == InitClients
    IN CASE cls[p].promise = "resolved" ->
                [clients |-> cls, microtasks |-> microtasks \cup {topic}]
         [] cls[p].promise = "pending" ->
                [clients |-> [cls EXCEPT ![p].thens = @ \cup {topic}],
                 microtasks |-> microtasks]
         [] OTHER -> [clients |-> cls, microtasks |-> microtasks]

\* the task that made the calls has returned: the queued continuations run,
\* each against the fields the service has by then
RunMicrotasks ==
    /\ microtasks # {}
    /\ LET s == RunThens(Svc, microtasks)
       IN /\ clients' = s.clients
          /\ subscriptions' = s.subscriptions
    /\ microtasks' = {}
    /\ stateCalls' = NoStateCalls
    /\ priceCalls' = NoPriceCalls
    /\ chartCalls' = NoChartCalls
    /\ lastMessage' = NoMessage
    /\ UNCHANGED <<client, connected, connectionPromise, priceUpdateCallbacks,
                   chartUpdateCallbacks, connectionStateCallbacks, timers,
                   priceUnsubs, chartUnsubs, stateUnsubs>>
    /\ UNCHANGED <<pageVars, viewVars, widgetVars>>

\* onPriceUpdate(symbol, callback) -> unsubscribe closure
onPriceUpdate(symbol, callback) ==
    /\ \A u \in priceUnsubs : u.callback # callback
    /\ stateCalls' = NoStateCalls
    /\ priceCalls' = NoPriceCalls
    /\ chartCalls' = NoChartCalls
    /\ lastMessage' = NoMessage
    /\ IF symbol = <<>>
       THEN UNCHANGED <<client, subscriptions, connected, connectionPromise,
                        priceUpdateCallbacks, clients, priceUnsubs, microtasks>>
       ELSE LET upperSymbol == ToUpperCase(symbol)
                old == IF upperSymbol \in DOMAIN priceUpdateCallbacks
                       THEN priceUpdateCallbacks[upperSymbol] ELSE <<>>
                s == InitThenSubscribe(PriceTopic(upperSymbol))
            IN /\ InitEnabled
               /\ priceUpdateCallbacks' =
                      MapPut(priceUpdateCallbacks, upperSymbol, SetAdd(old, callback))
               /\ connectionPromise' = InitResult
               /\ clients' = s.clients
               /\ microtasks' = s.microtasks
               /\ priceUnsubs' = priceUnsubs \cup
                      {[symbol |-> upperSymbol, callback |-> callback]}
               /\ UNCHANGED <<client, connected, subscriptions>>
    /\ UNCHANGED <<chartUpdateCallbacks, connectionStateCallbacks, timers,
                   chartUnsubs, stateUnsubs>>
    /\ UNCHANGED <<pageVars, viewVars, widgetVars>>

\* variant: the closure also drops the topic's subscription when the last
\* listener leaves
UnsubscribePrice_DropsTopic(u) ==
    /\ u \in priceUnsubs
    /\ priceUnsubs' = priceUnsubs \ {u}
    /\ LET callbackSet == IF u.symbol \in DOMAIN priceUpdateCallbacks
                          THEN SetDelete(priceUpdateCallbacks[u.symbol], u.callback)
                          ELSE <<>>
       IN /\ priceUpdateCallbacks' =
                IF u.symbol \notin DOMAIN priceUpdateCallbacks
                THEN priceUpdateCallbacks
                ELSE IF Len(callbackSet) = 0
                THEN MapDelete(priceUpdateCallbacks, u.symbol)
                ELSE MapPut(priceUpdateCallbacks, u.symbol, callbackSet)
          /\ subscriptions' =
                IF Len(callbackSet) = 0
                THEN subscriptions \ {PriceTopic(u.symbol)}
                ELSE subscriptions
    /\ stateCalls' = NoStateCalls
    /\ priceCalls' = NoPriceCalls
    /\ chartCalls' = NoChartCalls
    /\ lastMessage' = NoMessage
    /\ UNCHANGED <<client, connected, connectionPromise,
                   chartUpdateCallbacks, connectionStateCallbacks, clients,
                   timers, chartUnsubs, stateUnsubs>>
    /\ UNCHANGED microtasks
    /\ UNCHANGED <<pageVars, viewVars, widgetVars>>

\* the closure returned by onPriceUpdate
UnsubscribePrice(u) ==
    /\ u \in priceUnsubs
    /\ priceUnsubs' = priceUnsubs \ {u}
    /\ priceUpdateCallbacks' =
          IF u.symbol \in DOMAIN priceUpdateCallbacks
          THEN LET callbackSet == SetDelete(priceUpdateCallbacks[u.symbol], u.callback)
               IN IF Len(callbackSet) = 0
                  THEN MapDelete(priceUpdateCallbacks, u.symbol)
                  ELSE MapPut(priceUpdateCallbacks, u.symbol, callbackSet)
          ELSE priceUpdateCallbacks
    /\ stateCalls' = NoStateCalls
    /\ priceCalls' = NoPriceCalls
    /\ chartCalls' = NoChartCalls
    /\ lastMessage' = NoMessage
    /\ UNCHANGED <<client, subscriptions, connected, connectionPromise,
                   chartUpdateCallbacks, connectionStateCallbacks, clients,
                   timers, chartUnsubs, stateUnsubs>>
    /\ UNCHANGED microtasks
    /\ UNCHANGED <<pageVars, viewVars, widgetVars>>

\* onChartUpdate(symbol, timeframe, callback) -> unsubscribe closure
onChartUpdate(symbol, timeframe, callback) ==
    /\ \A u \in chartUnsubs : u.callback # callback
    /\ stateCalls' = NoStateCalls
    /\ priceCalls' = NoPriceCalls
    /\ chartCalls' = NoChartCalls
    /\ lastMessage' = NoMessage
    /\ IF symbol = <<>> \/ timeframe = ""
       THEN UNCHANGED <<client, subscriptions, connected, connectionPromise,
                        chartUpdateCallbacks, clients, chartUnsubs, microtasks>>
       ELSE LET upperSymbol == ToUpperCase(symbol)
                topicKey == ChartKey(upperSymbol, timeframe)
                old == IF topicKey \in DOMAIN chartUpdateCallbacks
                       THEN chartUpdateCallbacks[topicKey] ELSE <<>>
                s == InitThenSubscribe(ChartTopic(upperSymbol, timeframe))
            IN /\ InitEnabled
               /\ chartUpdateCallbacks' =
                      MapPut(chartUpdateCallbacks, topicKey, SetAdd(old, callback))
               /\ connectionPromise' = InitResult
               /\ clients' = s.clients
               /\ microtasks' = s.microtasks
               /\ chartUnsubs' = chartUnsubs \cup
                      {[key |-> topicKey, callback |-> callback]}
               /\ UNCHANGED <<client, connected, subscriptions>>
    /\ UNCHANGED <<priceUpdateCallbacks, connectionStateCallbacks, timers,
                   priceUnsubs, stateUnsubs>>
    /\ UNCHANGED <<pageVars, viewVars, widgetVars>>

\* the closure returned by onChartUpdate
UnsubscribeChart(u) ==
    /\ u \in chartUnsubs
    /\ chartUnsubs' = chartUnsubs \ {u}
    /\ chartUpdateCallbacks' =
          IF u.key \in DOMAIN chartUpdateCallbacks
          THEN LET callbackSet == SetDelete(chartUpdateCallbacks[u.key], u.callback)
               IN IF Len(callbackSet) = 0
                  THEN MapDelete(chartUpdateCallbacks, u.key)
                  ELSE MapPut(chartUpdateCallbacks, u.key, callbackSet)
          ELSE chartUpdateCallbacks
    /\ stateCalls' = NoStateCalls
    /\ priceCalls' = NoPriceCalls
    /\ chartCalls' = NoChartCalls
    /\ lastMessage' = NoMessage
    /\ UNCHANGED <<client, subscriptions, connected, connectionPromise,
                   priceUpdateCallbacks, connectionStateCallbacks, clients,
                   timers, priceUnsubs, stateUnsubs>>
    /\ UNCHANGED microtasks
    /\ UNCHANGED <<pageVars, viewVars, widgetVars>>

\* onConnectionStateChange(callback) -> unsubscribe closure
onConnectionStateChange(callback) ==
    /\ callback \notin stateUnsubs
    /\ connectionStateCallbacks' = SetAdd(connectionStateCallbacks, callback)
    /\ stateCalls' = [NoStateCalls EXCEPT ![callback] = <<connected>>]
    /\ stateUnsubs' = stateUnsubs \cup {callback}
    /\ priceCalls' = NoPriceCalls
    /\ chartCalls' = NoChartCalls
    /\ lastMessage' = NoMessage
    /\ UNCHANGED <<client, subscriptions, connected, connectionPromise,
                   priceUpdateCallbacks, chartUpdateCallbacks, clients, timers,
                   priceUnsubs, chartUnsubs>>
    /\ UNCHANGED microtasks
    /\ UNCHANGED <<pageVars, viewVars, widgetVars>>

\* the closure returned by onConnectionStateChange
UnsubscribeState(callback) ==
    /\ callback \in stateUnsubs
    /\ stateUnsubs' = stateUnsubs \ {callback}
    /\ connectionStateCallbacks' = SetDelete(connectionStateCallbacks, callback)
    /\ stateCalls' = NoStateCalls
    /\ priceCalls' = NoPriceCalls
    /\ chartCalls' = NoChartCalls
    /\ lastMessage' = NoMessage
    /\ UNCHANGED <<client, subscriptions, connected, connectionPromise,
                   priceUpdateCallbacks, chartUpdateCallbacks, clients, timers,
                   priceUnsubs, chartUnsubs>>
    /\ UNCHANGED microtasks
    /\ UNCHANGED <<pageVars, viewVars, widgetVars>>

(***************************************************************************)
(* useStockWebSocket (src/src/hooks/useStockWebSocket.ts) calls the        *)
(* service from its effects, several calls in one commit.  The calls are   *)
(* therefore also given as functions of the service fields they read and   *)
(* write, gathered in a record h.  The hook's observer and listener are    *)
(* closures of their own, none of Observers or Callbacks.                  *)
(***************************************************************************)
HookObserver == 0
HookListener == 0

HookSvc ==
    [connectionPromise |-> connectionPromise, clients |-> clients,
     microtasks |-> microtasks,
     priceUpdateCallbacks |-> priceUpdateCallbacks,
     priceUnsubs |-> priceUnsubs,
     connectionStateCallbacks |-> connectionStateCallbacks,
     stateUnsubs |-> stateUnsubs]

\* init() on h
SvcInit(h) ==
    IF h.connectionPromise # NoClient THEN h
    ELSE LET free == {c \in ClientIds : h.clients[c].state = "unused"}
             new == CHOOSE c \in free : \A d \in free : c <= d
         IN [h EXCEPT !.connectionPromise = new, !.clients[new] = NewClient]

\* onConnectionStateChange(callback) on h
SvcOnConnectionStateChange(h, callback) ==
    [h EXCEPT !.connectionStateCallbacks = SetAdd(@, callback),
              !.stateUnsubs = @ \cup {callback}]

\* the closure returned by onConnectionStateChange, on h
SvcUnsubscribeState(h, callback) ==
    [h EXCEPT !.connectionStateCallbacks = SetDelete(@, callback),
              !.stateUnsubs = @ \ {callback}]

\* onPriceUpdate(symbol, callback) on h
SvcOnPriceUpdate(h, symbol, callback) ==
    IF symbol = <<>> THEN h
    ELSE LET upperSymbol == ToUpperCase(symbol)
             old == IF upperSymbol \in DOMAIN h.priceUpdateCallbacks
                    THEN h.priceUpdateCallbacks[upperSymbol] ELSE <<>>
             i == SvcInit(h)
             p == i.connectionPromise
             topic == PriceTopic(upperSymbol)
         IN [i EXCEPT
                !.priceUpdateCallbacks = MapPut(@, upperSymbol, SetAdd(old, callback)),
                !.priceUnsubs = @ \cup {[symbol |-> upperSymbol, callback |-> callback]},
                !.microtasks = IF i.clients[p].promise = "resolved"
                               THEN @ \cup {topic} ELSE @,
                !.clients[p].thens = IF i.clients[p].promise = "pending"
                                     THEN @ \cup {topic} ELSE @]

\* the closure returned by onPriceUpdate, on h
SvcUnsubscribePrice(h, u) ==
    LET m == h.priceUpdateCallbacks
    IN [h EXCEPT
           !.priceUnsubs = @ \ {u},
           !.priceUpdateCallbacks =
               IF u.symbol \in DOMAIN m
               THEN LET callbackSet == SetDelete(m[u.symbol], u.callback)
                    IN IF Len(callbackSet) = 0
                       THEN MapDelete(m, u.symbol)
                       ELSE MapPut(m, u.symbol, callbackSet)
               ELSE m]

\* reconnect()
reconnect ==
    /\ timers < MaxTimers
    /\ clients' = IF client # NoClient
                  THEN [clients EXCEPT ![client] = Deactivate(@)]
                  ELSE clients
    /\ client' = NoClient
    /\ connected' = FALSE
    /\ connectionPromise' = NoClient
    /\ stateCalls' = notifyConnectionState(FALSE)
    /\ timers' = timers + 1
    /\ priceCalls' = NoPriceCalls
    /\ chartCalls' = NoChartCalls
    /\ lastMessage' = NoMessage
    /\ UNCHANGED <<subscriptions, priceUpdateCallbacks, chartUpdateCallbacks,
                   connectionStateCallbacks, priceUnsubs, chartUnsubs, stateUnsubs>>
    /\ UNCHANGED microtasks
    /\ UNCHANGED <<pageVars, viewVars, widgetVars>>

\* disconnect()
disconnect ==
    /\ clients' = IF client # NoClient
                  THEN [clients EXCEPT ![client] = Deactivate(@)]
                  ELSE clients
    /\ client' = NoClient
    /\ connected' = FALSE
    /\ connectionPromise' = NoClient
    /\ subscriptions' = {}
    /\ stateCalls' = notifyConnectionState(FALSE)
    /\ priceCalls' = NoPriceCalls
    /\ chartCalls' = NoChartCalls
    /\ lastMessage' = NoMessage
    /\ UNCHANGED <<priceUpdateCallbacks, chartUpdateCallbacks,
                   connectionStateCallbacks, timers,
                   priceUnsubs, chartUnsubs, stateUnsubs>>
    /\ UNCHANGED microtasks
    /\ UNCHANGED <<pageVars, viewVars, widgetVars>>

(***************************************************************************)
(* Callbacks the transport invokes on the handlers init() installed.       *)
(***************************************************************************)
\* client.onConnect: the STOMP session of client c is established (first
\* connection, or the library's automatic retry after a failure or a drop)
onConnect(c) ==
    /\ microtasks = {}
    /\ clients[c].state = "connecting"
    /\ LET s0 == [client |-> c, connected |-> TRUE,
                  subscriptions |-> subscriptions,
                  clients |-> [clients EXCEPT ![c].state = "connected"]]
           s1 == resubscribeAll(s0)
           s2 == IF clients[c].promise = "pending"
                 THEN RunThens([s1 EXCEPT !.clients[c].promise = "resolved",
                                          !.clients[c].thens = {}],
                               clients[c].thens)
                 ELSE s1
       IN /\ client' = s2.client
          /\ connected' = s2.connected
          /\ subscriptions' = s2.subscriptions
          /\ clients' = s2.clients
    /\ stateCalls' = notifyConnectionState(TRUE)
    /\ priceCalls' = NoPriceCalls
    /\ chartCalls' = NoChartCalls
    /\ lastMessage' = NoMessage
    /\ UNCHANGED <<connectionPromise, priceUpdateCallbacks, chartUpdateCallbacks,
                   connectionStateCallbacks, timers,
                   priceUnsubs, chartUnsubs, stateUnsubs>>
    /\ UNCHANGED microtasks
    /\ UNCHANGED <<pageVars, viewVars, widgetVars>>

\* client.onStompError: the broker sent an ERROR frame to client c
onStompError(c) ==
    /\ microtasks = {}
    /\ IsActive(clients[c])
    /\ stateCalls' = notifyConnectionState(FALSE)
    /\ priceCalls' = NoPriceCalls
    /\ chartCalls' = NoChartCalls
    /\ lastMessage' = NoMessage
    /\ UNCHANGED <<client, subscriptions, connected, connectionPromise,
                   priceUpdateCallbacks, chartUpdateCallbacks,
                   connectionStateCallbacks, clients, timers,
                   priceUnsubs, chartUnsubs, stateUnsubs>>
    /\ UNCHANGED microtasks
    /\ UNCHANGED <<pageVars, viewVars, widgetVars>>

\* client.onWebSocketError: the socket of client c reported an error
onWebSocketError(c) ==
    /\ microtasks = {}
    /\ IsActive(clients[c])
    /\ stateCalls' = notifyConnectionState(FALSE)
    /\ clients' = IF clients[c].promise = "pending"
                  THEN [clients EXCEPT ![c].promise = "rejected", ![c].thens = {}]
                  ELSE clients
    /\ priceCalls' = NoPriceCalls
    /\ chartCalls' = NoChartCalls
    /\ lastMessage' = NoMessage
    /\ UNCHANGED <<client, subscriptions, connected, connectionPromise,
                   priceUpdateCallbacks, chartUpdateCallbacks,
                   connectionStateCallbacks, timers,
                   priceUnsubs, chartUnsubs, stateUnsubs>>
    /\ UNCHANGED microtasks
    /\ UNCHANGED <<pageVars, viewVars, widgetVars>>

\* client.onDisconnect: the receipt of the DISCONNECT sent by deactivate()
onDisconnect(c) ==
    /\ microtasks = {}
    /\ clients[c].discPending
    /\ clients' = [clients EXCEPT ![c].discPending = FALSE]
    /\ connected' = FALSE
    /\ stateCalls' = notifyConnectionState(FALSE)
    /\ priceCalls' = NoPriceCalls
    /\ chartCalls' = NoChartCalls
    /\ lastMessage' = NoMessage
    /\ UNCHANGED <<client, subscriptions, connectionPromise,
                   priceUpdateCallbacks, chartUpdateCallbacks,
                   connectionStateCallbacks, timers,
                   priceUnsubs, chartUnsubs, stateUnsubs>>
    /\ UNCHANGED microtasks
    /\ UNCHANGED <<pageVars, viewVars, widgetVars>>

\* the socket of client c closes; the library drops the session with its
\* subscriptions and retries after reconnectDelay.  No handler is installed
\* for this event (onWebSocketClose), so no field of the service changes.
ConnectionLost(c) ==
    /\ microtasks = {}
    /\ clients[c].state = "connected"
    /\ clients' = [clients EXCEPT ![c].state = "connecting", ![c].subs = NoSubs]
    /\ stateCalls' = NoStateCalls
    /\ priceCalls' = NoPriceCalls
    /\ chartCalls' = NoChartCalls
    /\ lastMessage' = NoMessage
    /\ UNCHANGED <<client, subscriptions, connected, connectionPromise,
                   priceUpdateCallbacks, chartUpdateCallbacks,
                   connectionStateCallbacks, timers,
                   priceUnsubs, chartUnsubs, stateUnsubs>>
    /\ UNCHANGED microtasks
    /\ UNCHANGED <<pageVars, viewVars, widgetVars>>

\* NaN, as a value no price takes
NaN == -99

isNaN(x) == x = NaN

(***************************************************************************)
(* StockChart (src/src/components/charts/StockChart.tsx).                  *)
(*                                                                         *)
(* view holds the props chartData and timeframe, the state                 *)
(* displayedPointCount, isDrawing, wasUpdated, the refs prevChartDataRef   *)
(* and drawingTimerRef, and the cleanup the last run of the chart data     *)
(* effect returned.  A chartData object is [isNull, id, n, hasPrice,       *)
(* Price]: its identity, the number of its labels, and its Price channel.  *)
(* displayedPointCount, isDrawing and wasUpdated are the state of          *)
(* the render last committed, the one on the screen.  The commit of a      *)
(* render with new props leaves the chart data effect pending: it is a     *)
(* passive effect and runs after the commit, so the render with the new    *)
(* props and the state and timers of the old ones is a state of its own.   *)
(* setState calls are queued (view.queued is the state with every queued   *)
(* call applied) and reach the screen with the next commit, which waits    *)
(* for a pending effect and, after a timeframe change, for the parent's    *)
(* setChartData(null).  Refs and timers change at once.                    *)
(***************************************************************************)
\* SKETCHING_CONFIG
POINTS_PER_STEP == 6
INITIAL_POINTS == 8
MIN_POINTS_FOR_ANIMATION == 20
MAX_POINTS_FOR_ANIMATION == 300
ENABLE_FOR_TIMEFRAMES == {"1d", "1w", "1m"}

\* chartData.labels.length - prevChartDataRef.current.labels.length <= 3
LIVE_UPDATE_MAX_POINTS == 3

ViewTimeframes == {"1m", "3m"}

\* label counts of the series a load returns
ReloadLengths == {0, 2, 19, 20, 25, 301}

\* points by which a new chartData extends the previous one
AppendSizes == {1, 3, 4}

\* Price channels of the series a load returns: rising 1, 2, ..., n;
\* falling n, n-1, ..., 1; gap 0, 2, 3, ..., n (a first point without a
\* price); or no Price channel
Shapes == {"rising", "falling", "gap", "none"}

ShapePrices(sh, n) ==
    [index \in 1..n |->
        CASE sh = "rising" -> index
          [] sh = "falling" -> n + 1 - index
          [] OTHER -> IF index = 1 THEN 0 ELSE index]

NullChartData ==
    [isNull |-> TRUE, id |-> 0, n |-> 0, hasPrice |-> FALSE, Price |-> <<>>]

\* a chartData object with n labels and a Price channel of shape sh
Series(id, n, sh) ==
    [isNull |-> FALSE, id |-> id, n |-> n, hasPrice |-> (sh # "none"),
     Price |-> IF sh = "none" THEN <<>> ELSE ShapePrices(sh, n)]

NoTimer == [chart |-> 0, currentPoints |-> 0, totalPoints |-> 0, steps |-> 0]

Min(a, b) == IF a <= b THEN a ELSE b

Max(a, b) == IF a >= b THEN a ELSE b

\* shouldAnimate(newChartData)
shouldAnimate(newChartData, timeframe) ==
    IF newChartData.isNull THEN FALSE
    ELSE LET pointCount == newChartData.n
             isEligibleTimeframe == timeframe \in ENABLE_FOR_TIMEFRAMES
             hasAppropriateSize ==
                 /\ pointCount >= MIN_POINTS_FOR_ANIMATION
                 /\ pointCount <= MAX_POINTS_FOR_ANIMATION
         IN isEligibleTimeframe /\ hasAppropriateSize

\* setDisplayedPointCount(chartData.labels?.length || 0)
ShowAllPoints(chartData) == chartData.n

\* if (drawingTimerRef.current) { clearTimeout(...); ... = null }
ClearDrawingTimer(w) ==
    [w EXCEPT !.drawingTimers = @ \ {w.view.drawingTimerRef},
              !.view.drawingTimerRef = NoTimer]

\* addMorePoints of the animation started for chart `t.chart`, with its
\* closure variable currentPoints at t.currentPoints; t.steps counts the
\* timed steps taken so far
addMorePoints(w, t, timed) ==
    IF t.currentPoints >= t.totalPoints
    THEN [w EXCEPT !.view.isDrawing = FALSE,
                   !.view.displayedPointCount = t.totalPoints]
    ELSE LET next == [t EXCEPT
                        !.currentPoints = Min(t.currentPoints + POINTS_PER_STEP,
                                              t.totalPoints),
                        !.steps = IF timed THEN @ + 1 ELSE @]
         IN [w EXCEPT !.view.displayedPointCount = next.currentPoints,
                      !.drawingTimers = @ \cup {next},
                      !.view.drawingTimerRef = next]

\* the chart data effect, run for the props chartData and timeframe; w is
\* [view, drawingTimers, updateTimers]
ChartDataEffect(w, chartData, timeframe) ==
    LET \* cleanup returned by the previous run
        w0 == [w EXCEPT !.updateTimers = @ \ w.view.cleanup,
                        !.view.cleanup = {}]
        w1 == ClearDrawingTimer(w0)
        prev == w.view.prevChartDataRef
        isWebSocketUpdate ==
            /\ ~prev.isNull
            /\ chartData.n > prev.n
            /\ chartData.n - prev.n <= LIVE_UPDATE_MAX_POINTS
    IN IF chartData.isNull
       THEN [w1 EXCEPT !.view.displayedPointCount = 0,
                       !.view.isDrawing = FALSE,
                       !.view.prevChartDataRef = chartData]
       ELSE IF isWebSocketUpdate
       THEN [w1 EXCEPT !.view.displayedPointCount = chartData.n,
                       !.view.wasUpdated = TRUE,
                       !.updateTimers = @ \cup {chartData.id},
                       !.view.prevChartDataRef = chartData,
                       !.view.cleanup = {chartData.id}]
       ELSE IF shouldAnimate(chartData, timeframe)
       THEN LET w2 == [w1 EXCEPT !.view.isDrawing = TRUE,
                                 !.view.displayedPointCount = INITIAL_POINTS,
                                 !.view.prevChartDataRef = chartData]
            IN addMorePoints(w2, [chart |-> chartData.id,
                                  currentPoints |-> INITIAL_POINTS,
                                  totalPoints |-> chartData.n,
                                  steps |-> 0], FALSE)
       ELSE [w1 EXCEPT !.view.displayedPointCount = ShowAllPoints(chartData),
                       !.view.isDrawing = FALSE,
                       !.view.prevChartDataRef = chartData]

\* chartData.datasets.Price ? chartData.datasets.Price[index] : 0, for the
\* 1-based position index; past the end of the channel the element is
\* undefined, which the filter of validPrices drops as it drops 0
PriceAt(chartData, index) ==
    IF chartData.hasPrice /\ index <= Len(chartData.Price)
    THEN chartData.Price[index]
    ELSE 0

\* allData: the Price of every label of the series
allData(chartData) ==
    IF chartData.isNull THEN <<>>
    ELSE [index \in 1..chartData.n |-> PriceAt(chartData, index)]

\* displayed = allData.slice(0, actualDisplayCount)
displayed(chartData, displayedPointCount) ==
    SubSeq(allData(chartData), 1, Min(displayedPointCount, Len(allData(chartData))))

RECURSIVE MathMin(_, _)
\* Math.min(...priceValues) over priceValues[i..]
MathMin(priceValues, i) ==
    IF i = Len(priceValues) THEN priceValues[i]
    ELSE Min(priceValues[i], MathMin(priceValues, i + 1))

RECURSIVE MathMax(_, _)
\* Math.max(...priceValues) over priceValues[i..]
MathMax(priceValues, i) ==
    IF i = Len(priceValues) THEN priceValues[i]
    ELSE Max(priceValues[i], MathMax(priceValues, i + 1))

\* the value-axis range [yDomainMin, yDomainMax] computed from `data`, in
\* hundredths of a price unit: the padding max(range * 0.08, max * 0.02)
\* is max(range * 8, max * 2) hundredths and the default [0, 100] is
\* <<0, 10000>>
DomainOf(data) ==
    LET validItems == SelectSeq(data, LAMBDA v : v # 0 /\ ~isNaN(v) /\ v > 0)
    IN IF Len(validItems) > 0
       THEN LET minPrice == MathMin(validItems, 1)
                maxPrice == MathMax(validItems, 1)
                priceRange == maxPrice - minPrice
                pricePadding == Max(priceRange * 8, maxPrice * 2)
            IN <<Max(0, minPrice * 100 - pricePadding),
                 maxPrice * 100 + pricePadding>>
       ELSE <<0, 10000>>

\* variant: the range is computed from the points now visible
yAxisDomain_Visible(chartData, displayedPointCount) ==
    DomainOf(displayed(chartData, displayedPointCount))

\* yAxisDomain of the render with props chartData and state
\* displayedPointCount
yAxisDomain(chartData, displayedPointCount) ==
    DomainOf(allData(chartData))

\* useState(0), useState(false), useState(false): the three state values
StateOf(v) ==
    [displayedPointCount |-> v.displayedPointCount, isDrawing |-> v.isDrawing,
     wasUpdated |-> v.wasUpdated]

\* the state the next render takes: every queued setState call applied
Latest(v) ==
    [v EXCEPT !.displayedPointCount = v.queued.displayedPointCount,
              !.isDrawing = v.queued.isDrawing,
              !.wasUpdated = v.queued.wasUpdated]

\* no render is committed while the chart data effect is pending or the
\* parent's setChartData(null) is queued
Deferred(v) == v.pending \/ v.clearing

\* the view after code that ran on Latest(v) left u: its setState calls are
\* queued, and rendered at once unless the commit is deferred
Rendered(v, u, deferred) ==
    IF deferred
    THEN [u EXCEPT !.displayedPointCount = v.displayedPointCount,
                   !.isDrawing = v.isDrawing,
                   !.wasUpdated = v.wasUpdated,
                   !.queued = StateOf(u)]
    ELSE [u EXCEPT !.queued = StateOf(u)]

ViewNow == [view |-> Latest(view), drawingTimers |-> drawingTimers,
            updateTimers |-> updateTimers]

\* the identity of a chartData object made now: the first number that
\* names no object the chart, its refs or its timers still refer to
FreshChart(w) ==
    LET used == {w.view.chartData.id, w.view.prevChartDataRef.id,
                 w.view.drawingTimerRef.chart}
                \cup {t.chart : t \in w.drawingTimers}
                \cup w.updateTimers \cup w.view.cleanup
    IN CHOOSE i \in 1..(Cardinality(used) + 1) :
          i \notin used /\ \A j \in 1..(i - 1) : j \in used

\* the chartData prop for the page's chartData state
ViewChart(chart, id) ==
    IF chart.isNull THEN NullChartData
    ELSE [isNull |-> FALSE, id |-> id, n |-> Len(chart.labels),
          hasPrice |-> chart.hasPrice, Price |-> chart.Price]

\* HomePage commits a render with state u after the code that left the
\* chart as w: StockChart takes the props of u and every queued setState
\* call, and its chart data effect is pending when chartData or timeframe
\* changed.  made tells that u.chartData is an object made for this render
ViewCommits(w, u, made) ==
    LET changed == made \/ u.chartData # ui.chartData
        v == [w.view EXCEPT
                 !.chartData = IF changed
                               THEN ViewChart(u.chartData, FreshChart(w))
                               ELSE @,
                 !.timeframe = u.timeframe,
                 !.pending = changed \/ u.timeframe # w.view.timeframe,
                 !.queued = StateOf(w.view)]
    IN /\ view' = IF w.view.mounted THEN v ELSE view
       /\ drawingTimers' = w.drawingTimers
       /\ updateTimers' = w.updateTimers
       /\ UNCHANGED nextChart

\* the cleanups of both effects of StockChart, run at its unmount
ViewUnmounts ==
    /\ view' = [view EXCEPT !.mounted = FALSE, !.cleanup = {}]
    /\ updateTimers' = updateTimers \ view.cleanup
    /\ drawingTimers' = drawingTimers \ {view.drawingTimerRef}
    /\ UNCHANGED nextChart

\* StockChart after the commit of its first render, its effects pending
ViewInit ==
    /\ view = [mounted |-> TRUE, chartData |-> NullChartData, timeframe |-> "1m",
               displayedPointCount |-> 0, isDrawing |-> FALSE,
               wasUpdated |-> FALSE, prevChartDataRef |-> NullChartData,
               drawingTimerRef |-> NoTimer, cleanup |-> {},
               clearing |-> FALSE, pending |-> TRUE,
               queued |-> [displayedPointCount |-> 0, isDrawing |-> FALSE,
                           wasUpdated |-> FALSE]]
    /\ drawingTimers = {}
    /\ updateTimers = {}
    /\ nextChart = 1

\* the parent passes a new chartData object (the series of a completed
\* load, the held series extended by a live tick, or null) and the render
\* with it is committed: the state and the timers are those of the previous
\* props until the chart data effect has run
ChartDataChanges(chartData) ==
    /\ view.mounted
    /\ ~Deferred(view)
    /\ nextChart <= MaxCharts
    /\ chartData.isNull => ~view.chartData.isNull
    /\ view' = [view EXCEPT !.chartData = chartData, !.pending = TRUE]
    /\ nextChart' = nextChart + 1
    /\ UNCHANGED <<drawingTimers, updateTimers>>
    /\ UNCHANGED <<wsVars, pageVars, widgetVars>>

\* a timeframe button is clicked, which the chart renders only with a
\* series: the commit of the render with the new timeframe and the series
\* still held.  The parent's load effect, flushed with the chart data
\* effect of this commit, calls setChartData(null): clearing marks the
\* render that call queues
TimeframeChanges(timeframe) ==
    /\ view.mounted
    /\ ~Deferred(view)
    /\ ~view.chartData.isNull
    /\ nextChart <= MaxCharts
    /\ timeframe # view.timeframe
    /\ view' = [view EXCEPT !.timeframe = timeframe, !.pending = TRUE,
                            !.clearing = TRUE]
    /\ nextChart' = nextChart + 1
    /\ UNCHANGED <<drawingTimers, updateTimers>>
    /\ UNCHANGED <<wsVars, pageVars, widgetVars>>

\* the pending chart data effect runs for the committed props: the cleanup
\* of the previous run, then the effect
ChartEffectRuns ==
    /\ view.mounted
    /\ view.pending
    /\ LET w == ChartDataEffect(ViewNow, view.chartData, view.timeframe)
       IN /\ view' = [Rendered(view, w.view, view.clearing) EXCEPT !.pending = FALSE]
          /\ drawingTimers' = w.drawingTimers
          /\ updateTimers' = w.updateTimers
    /\ UNCHANGED nextChart
    /\ UNCHANGED <<wsVars, pageVars, widgetVars>>

\* the commit of the render queued by the parent's setChartData(null), with
\* the state the effect run before it has set
ChartDataCleared ==
    /\ view.mounted
    /\ view.clearing
    /\ ~view.pending
    /\ view' = [Latest(view) EXCEPT !.chartData = NullChartData,
                                    !.pending = TRUE, !.clearing = FALSE]
    /\ UNCHANGED <<drawingTimers, updateTimers, nextChart>>
    /\ UNCHANGED <<wsVars, pageVars, widgetVars>>

\* setTimeout(addMorePoints, STEP_INTERVAL) fires
DrawingTimerFires(t) ==
    /\ t \in drawingTimers
    /\ LET w == addMorePoints([ViewNow EXCEPT !.drawingTimers = @ \ {t}], t, TRUE)
       IN /\ view' = Rendered(view, w.view, Deferred(view))
          /\ drawingTimers' = w.drawingTimers
          /\ updateTimers' = w.updateTimers
    /\ UNCHANGED nextChart
    /\ UNCHANGED <<wsVars, pageVars, widgetVars>>

\* setTimeout(() => setWasUpdated(false), 1500) fires
UpdateTimerFires(t) ==
    /\ t \in updateTimers
    /\ updateTimers' = updateTimers \ {t}
    /\ view' = Rendered(view, [Latest(view) EXCEPT !.wasUpdated = FALSE],
                        Deferred(view))
    /\ UNCHANGED <<drawingTimers, nextChart>>
    /\ UNCHANGED <<wsVars, pageVars, widgetVars>>

\* the component is unmounted, once a pending effect has run: the cleanups
\* of both effects run
Unmount ==
    /\ view.mounted
    /\ ~view.pending
    /\ ViewUnmounts
    /\ UNCHANGED <<wsVars, pageVars, widgetVars>>

\* series a load may return: every shape for the lengths up to 25, and a
\* series of 301 labels without a Price channel
Reloads ==
    {Series(FreshChart(ViewNow), r[1], r[2]) :
        r \in {x \in ReloadLengths \X Shapes :
                  x[1] <= MAX_POINTS_FOR_ANIMATION \/ x[2] = "none"}}

\* a series longer than the held one by a few points: a live tick appends
\* one point, a later response may carry more
Appends ==
    IF view.chartData.isNull THEN {}
    ELSE {[view.chartData EXCEPT
              !.id = FreshChart(ViewNow),
              !.n = @ + k,
              !.Price = IF view.chartData.hasPrice
                        THEN @ \o [i \in 1..k |-> view.chartData.n + i]
                        ELSE @] : k \in AppendSizes}

ViewNext ==
    \/ \E chartData \in Reloads \cup Appends \cup {NullChartData} :
          ChartDataChanges(chartData)
    \/ \E timeframe \in ViewTimeframes : TimeframeChanges(timeframe)
    \/ ChartEffectRuns
    \/ ChartDataCleared
    \/ \E t \in drawingTimers : DrawingTimerFires(t)
    \/ \E t \in updateTimers : UpdateTimerFires(t)
    \/ Unmount

(***************************************************************************)
(* HomePage (src/src/app/page.tsx).                                        *)
(*                                                                         *)
(* ui is the React state of the last committed render.  An event handler   *)
(* or the continuation of an awaited request applies its setState calls as *)
(* one batch.  After a render, PageRunEffects runs, in the order of their  *)
(* definition, the effects whose dependencies changed: each effect reads   *)
(* the values of the render it belongs to (its closure) and its setState   *)
(* calls are queued behind those of the effects before it.                 *)
(* Prices are integers; a percentage is the exact fraction num/den.        *)
(***************************************************************************)
\* useState("ARM")
InitialSymbol == <<"A", "R", "M">>

PageSymbols == {InitialSymbol, <<"B">>}

\* spellings of a symbol the price feed may put in a tick
TickSymbols == {<<"A", "R", "M">>, <<"a", "r", "m">>, <<"B">>}

PageTimeframes == {"1m", "1d"}

PagePrices == 1..MaxPrice

\* values of a series channel as the backend sends them
SeriesValues == {NaN, 0} \cup PagePrices

Percent(change, base) == [num |-> change * 100, den |-> base]

ZeroPercent == [num |-> 0, den |-> 1]

ZeroMetrics == [priceChange |-> 0, percentChange |-> ZeroPercent, isPriceUp |-> FALSE]

\* variant: the percentage is taken over the new price
ChangeMetrics_OverPrice(price, startPrice) ==
    [priceChange |-> price - startPrice,
     percentChange |-> Percent(price - startPrice, price),
     isPriceUp |-> (price - startPrice >= 0)]

\* timeframeChangeMetrics as computed from a price and the baseline
ChangeMetrics(price, startPrice) ==
    [priceChange |-> price - startPrice,
     percentChange |-> Percent(price - startPrice, startPrice),
     isPriceUp |-> (price - startPrice >= 0)]

\* chartData null.  A ChartData holds its labels and its datasets: the Price
\* channel and, when the backend sends one, a further channel (Volume).
NullChart ==
    [isNull |-> TRUE, title |-> <<>>, labels |-> <<>>, hasPrice |-> FALSE, Price |-> <<>>,
     hasVolume |-> FALSE, Volume |-> <<>>]

\* a ChartData response: one label per sample; every channel it has is
\* aligned with the labels
ChartResponses ==
    {[isNull |-> FALSE, title |-> <<>>, labels |-> [i \in 1..Len(ps) |-> "t"],
      hasPrice |-> TRUE, Price |-> ps,
      hasVolume |-> hv, Volume |-> IF hv THEN [i \in 1..Len(ps) |-> 0] ELSE <<>>] :
         ps \in UNION {[1..n -> SeriesValues] : n \in 0..MaxSeriesLen},
         hv \in BOOLEAN}
      \cup {[isNull |-> FALSE, title |-> <<>>, labels |-> <<"t">>, hasPrice |-> FALSE, Price |-> <<>>,
             hasVolume |-> FALSE, Volume |-> <<>>]}

\* chartData.title of the series the backend returns for a request: it
\* names the symbol and the timeframe asked for
Title(request) == <<request.symbol, request.timeframe>>

ShortChartResponses == {c \in ChartResponses : Len(c.Price) <= 1}

\* a response without samples
EmptySeries ==
    [isNull |-> FALSE, title |-> <<>>, labels |-> <<>>, hasPrice |-> TRUE,
     Price |-> <<>>, hasVolume |-> FALSE, Volume |-> <<>>]

BaselineResponses == {c \in ShortChartResponses : ~c.hasVolume}

NullQuote ==
    [isNull |-> TRUE, id |-> 0, symbol |-> <<>>, price |-> 0,
     change |-> 0, changePercent |-> ZeroPercent]

\* a StockPrice as the backend sends it
Quote(id, symbol, price) ==
    [isNull |-> FALSE, id |-> id, symbol |-> symbol, price |-> price,
     change |-> 0, changePercent |-> ZeroPercent]

\* { ...quote, change, changePercent }
WithChange(quote, change, changePercent) ==
    [quote EXCEPT !.change = change, !.changePercent = changePercent]

\* priceDataset.filter((price) => price && !isNaN(price) && price > 0)
validPrices(priceDataset) ==
    SelectSeq(priceDataset, LAMBDA price : price # 0 /\ ~isNaN(price) /\ price > 0)

\* chartDataResponse.datasets.Price || []
PriceDataset(chart) == IF chart.hasPrice THEN chart.Price ELSE <<>>

\* the closure of a render: the values its effects and handlers read
Closure(u) == [symbol |-> u.symbol, startPrice |-> u.currentTimeframeStartPrice]

\* dependency lists of the effects, for the state u
DepsOf(u) ==
    [load |-> <<u.symbol, u.timeframe>>,
     tick |-> <<u.wsPrice.id, u.currentTimeframeStartPrice, u.symbol, u.timeframe>>,
     market |-> <<u.symbol, u.currentTimeframeStartPrice>>,
     socket |-> <<u.symbol>>]

Unmounted == [mounted |-> FALSE, torn |-> FALSE, last |-> DepsOf(
    [symbol |-> <<>>, timeframe |-> "", wsPrice |-> NullQuote,
     currentTimeframeStartPrice |-> 0])]

\* the page before its first commit.  api tells whether the api module
\* exports marketApi.
PageInitWith(api) ==
    /\ ui = [symbol |-> InitialSymbol, timeframe |-> "1m",
             chartData |-> NullChart, stockPrice |-> NullQuote,
             loading |-> TRUE, error |-> FALSE, isMarketOpen |-> FALSE,
             currentTimeframeStartPrice |-> 0, currentPrice |-> 0,
             timeframeChangeMetrics |-> ZeroMetrics,
             wsPrice |-> NullQuote]
    /\ deps = Unmounted
    /\ loads = {}
    /\ checks = EmptyBag
    /\ refreshes = EmptyBag
    /\ marketApi = api
    /\ intervals = {}
    /\ nextTick = 1
    /\ nextLoad = 1
    /\ tickLog = [received |-> <<>>, applied |-> {}]

\* the page with the api module of src/src/services/api.ts, which exports
\* no marketApi: every status check ends in its catch before a request is
\* made
PageInit == PageInitWith(FALSE)

(***************************************************************************)
(* The effects.  r is the render the effect belongs to; w carries the      *)
(* queued state (w.ui) and the requests and timers started so far.         *)
(***************************************************************************)
\* useEffect(..., [symbol, timeframe]): reset, then start the load
LoadEffect(r, w) ==
    [w EXCEPT !.ui.chartData = NullChart,
              !.ui.stockPrice = NullQuote,
              !.ui.currentTimeframeStartPrice = 0,
              !.ui.currentPrice = 0,
              !.ui.timeframeChangeMetrics = ZeroMetrics,
              !.ui.error = FALSE,
              !.ui.loading = TRUE,
              !.loads = @ \cup {[id |-> w.nextLoad, symbol |-> r.symbol,
                                   timeframe |-> r.timeframe]},
              !.nextLoad = @ + 1]

\* variant: the guard does not look at the baseline
TickAccepted_AnyBaseline(r) ==
    ~(\/ r.wsPrice.isNull
      \/ ToUpperCase(r.wsPrice.symbol) # ToUpperCase(r.symbol))

\* the guard of the tick effect
TickAccepted(r) ==
    ~(\/ r.wsPrice.isNull
      \/ r.currentTimeframeStartPrice <= 0
      \/ ToUpperCase(r.wsPrice.symbol) # ToUpperCase(r.symbol))

\* setChartData((prevChartData) => ...) of the tick effect
AppendPoint(prevChartData, price) ==
    IF prevChartData.isNull THEN prevChartData
    ELSE [prevChartData EXCEPT
             !.labels = Append(@, "live"),
             !.hasPrice = TRUE,
             !.Price = Append(PriceDataset(prevChartData), price)]

\* useEffect(..., [wsPrice, currentTimeframeStartPrice, symbol, timeframe])
TickEffect(r, w) ==
    IF ~TickAccepted(r) THEN w
    ELSE LET m == ChangeMetrics(r.wsPrice.price, r.currentTimeframeStartPrice)
         IN [w EXCEPT
                !.ui.currentPrice = r.wsPrice.price,
                !.ui.timeframeChangeMetrics = m,
                !.ui.stockPrice = WithChange(r.wsPrice, m.priceChange, m.percentChange),
                !.ui.chartData = AppendPoint(@, r.wsPrice.price)]

\* setInterval(checkMarketStatusAndUpdatePrices, 30_000)
POLL_INTERVAL == 30000

\* the delay of the interval started by the render with this closure
IntervalDelay(closure) == POLL_INTERVAL

\* the delays of the poll intervals now active
DelaysInUse == {IntervalDelay(closure) : closure \in intervals}

\* checkMarketStatusAndUpdatePrices() called with this closure: the request
\* of marketApi.getStatus() goes out.  src/src/services/api.ts exports no
\* marketApi: with that module the call throws inside the try block before
\* any request is made, and the catch logs the error.
StartCheck(inFlight, closure) ==
    IF marketApi THEN inFlight (+) SetToBag({closure}) ELSE inFlight

\* variant: the effect returns no cleanup
MarketEffect_NoCleanup(r, w) ==
    [w EXCEPT !.checks = StartCheck(@, Closure(r)),
              !.intervals = @ \cup {Closure(r)}]

\* useEffect(..., [symbol, currentTimeframeStartPrice]): the cleanup of the
\* previous run clears its interval; then an immediate check and a new
\* interval, both with the closure of render r
MarketEffect(r, w) ==
    LET previous == [symbol |-> deps.last.market[1], startPrice |-> deps.last.market[2]]
        cleaned == IF deps.mounted THEN w.intervals \ {previous} ELSE w.intervals
    IN [w EXCEPT !.checks = StartCheck(@, Closure(r)),
                 !.intervals = cleaned \cup {Closure(r)}]

\* no effect is pending: those of the page have run for the state of the
\* last render, and so has the chart data effect of StockChart
EffectsSettled == deps.mounted /\ deps.last = DepsOf(ui) /\ ~view.pending

\* a continuation of a request can run: the effects of the last render have
\* run, or the page is gone (requests are not cancelled by the unmount)
CanResume == EffectsSettled \/ deps.torn

\* the state after the setters of a continuation: those of an unmounted
\* component are ignored
SetState(u) == IF deps.torn THEN ui ELSE u

\* StockChart renders its timeframe buttons only below the loading, error
\* and no-data placeholders
TimeframeButtonsShown(u) == ~u.loading /\ ~u.error /\ ~u.chartData.isNull

\* bound on the loads started: a selection change happens while the load
\* it starts is within the bound
RoomForLoad == nextLoad <= MaxLoads

\* the closure returned by the hook's onPriceUpdate(symbol, ...)
HookUnsub(symbol) == [symbol |-> ToUpperCase(symbol), callback |-> HookListener]

\* the effects of useStockWebSocket in the commit of render r: on mount
\* init() and onConnectionStateChange; on mount and when symbol changed,
\* the cleanup of the previous run (unsubscribe) and, for a symbol that is
\* not empty, onPriceUpdate
HookEffects(r, h) ==
    LET previous == deps.last.socket[1]
        symbolRun == ~deps.mounted \/ <<r.symbol>> # deps.last.socket
        h1 == IF ~deps.mounted
              THEN SvcOnConnectionStateChange(SvcInit(h), HookObserver)
              ELSE h
        h2 == IF deps.mounted /\ symbolRun /\ previous # <<>>
              THEN SvcUnsubscribePrice(h1, HookUnsub(previous))
              ELSE h1
    IN IF symbolRun /\ r.symbol # <<>>
       THEN SvcOnPriceUpdate(h2, r.symbol, HookListener)
       ELSE h2

\* the cleanups of useStockWebSocket at the unmount
HookCleanups(h) ==
    LET previous == deps.last.socket[1]
        h1 == SvcUnsubscribeState(h, HookObserver)
    IN IF previous # <<>> THEN SvcUnsubscribePrice(h1, HookUnsub(previous))
       ELSE h1

\* the service after the hook's calls of one commit left it as h: the
\* continuations they queued run when the commit's task has returned
AfterHook(h) ==
    /\ LET s == RunThens([client |-> client, connected |-> connected,
                          subscriptions |-> subscriptions, clients |-> h.clients],
                         h.microtasks)
       IN /\ clients' = s.clients
          /\ subscriptions' = s.subscriptions
    /\ microtasks' = {}
    /\ connectionPromise' = h.connectionPromise
    /\ priceUpdateCallbacks' = h.priceUpdateCallbacks
    /\ priceUnsubs' = h.priceUnsubs
    /\ connectionStateCallbacks' = h.connectionStateCallbacks
    /\ stateUnsubs' = h.stateUnsubs
    /\ stateCalls' = NoStateCalls
    /\ priceCalls' = NoPriceCalls
    /\ chartCalls' = NoChartCalls
    /\ lastMessage' = NoMessage
    /\ UNCHANGED <<client, connected, chartUpdateCallbacks, timers, chartUnsubs>>

\* {stockPrice && <OrderForm isOpen={orderModalOpen} ... />} and, in
\* OrderForm, if (!isOpen) return null ahead of its hooks: the form and the
\* state of its hooks exist while the page is mounted, holds a quote and
\* has the modal open
FormShown(u, o) == ~deps.torn /\ ~u.stockPrice.isNull /\ o.open

\* the useState initial values of OrderForm: the state of a form that is
\* shown again
FreshForm(o) ==
    [o EXCEPT !.step = 1, !.orderType = "MARKET", !.limitPrice = "",
              !.loading = FALSE, !.error = FALSE, !.success = FALSE,
              !.isPriceStale = FALSE]

\* the handlers still running when their form leaves the screen: they run
\* on, and React ignores their setState calls
Detached(calls) == {[call EXCEPT !.live = FALSE] : call \in calls}

\* the passive effects of the last commit run, those whose dependencies
\* changed: the chart data effect of the child StockChart, then the effects
\* of useStockWebSocket and those of the page; the render their setState
\* calls queue is committed, without the OrderForm when the load effect
\* has reset stockPrice
PageRunEffects ==
    /\ ~EffectsSettled
    /\ ~deps.torn
    /\ microtasks = {}
    /\ (~deps.mounted \/ <<ui.symbol>> # deps.last.socket) => InitEnabled
    /\ AfterHook(HookEffects(ui, HookSvc))
    /\ LET d == DepsOf(ui)
           w0 == [ui |-> ui, loads |-> loads, checks |-> checks,
                  intervals |-> intervals, nextLoad |-> nextLoad]
           w1 == IF ~deps.mounted \/ d.load # deps.last.load
                 THEN LoadEffect(ui, w0) ELSE w0
           w2 == IF ~deps.mounted \/ d.tick # deps.last.tick
                 THEN TickEffect(ui, w1) ELSE w1
           w3 == IF ~deps.mounted \/ d.market # deps.last.market
                 THEN MarketEffect(ui, w2) ELSE w2
           c == IF view.pending
                THEN ChartDataEffect(ViewNow, view.chartData, view.timeframe)
                ELSE ViewNow
       IN /\ ui' = w3.ui
          /\ loads' = w3.loads
          /\ checks' = w3.checks
          /\ intervals' = w3.intervals
          /\ nextLoad' = w3.nextLoad
          /\ deps' = [mounted |-> TRUE, torn |-> FALSE, last |-> d]
          /\ ViewCommits(c, w3.ui, FALSE)
          /\ IF FormShown(ui, order) /\ w3.ui.stockPrice.isNull
             THEN /\ order' = FreshForm(order)
                  /\ orderCalls' = Detached(orderCalls)
             ELSE UNCHANGED orderVars
    /\ tickLog' = IF (~deps.mounted \/ DepsOf(ui).tick # deps.last.tick)
                        /\ TickAccepted(ui)
                   THEN [tickLog EXCEPT !.applied = @ \cup {ui.wsPrice.id}]
                   ELSE tickLog
    /\ UNCHANGED <<refreshes, nextTick>>
    /\ UNCHANGED marketApi
    /\ UNCHANGED searchVars

(***************************************************************************)
(* Events.                                                                 *)
(***************************************************************************)
\* SymbolSearch onSymbolSelect={setSymbol}
SelectSymbol(symbol) ==
    /\ EffectsSettled
    /\ RoomForLoad
    /\ symbol # ui.symbol
    /\ ui' = [ui EXCEPT !.symbol = symbol]
    /\ UNCHANGED <<tickLog, deps, loads, checks, refreshes, intervals, nextTick, nextLoad>>
    /\ UNCHANGED marketApi
    /\ UNCHANGED <<wsVars, viewVars, widgetVars>>

\* StockChart onTimeframeChange={setTimeframe}
SelectTimeframe(timeframe) ==
    /\ EffectsSettled
    /\ TimeframeButtonsShown(ui)
    /\ RoomForLoad
    /\ timeframe # ui.timeframe
    /\ ui' = [ui EXCEPT !.timeframe = timeframe]
    /\ ViewCommits(ViewNow, ui', FALSE)
    /\ UNCHANGED <<tickLog, deps, loads, checks, refreshes, intervals, nextTick, nextLoad>>
    /\ UNCHANGED marketApi
    /\ UNCHANGED <<wsVars, widgetVars>>

(***************************************************************************)
(* A message arrives on a topic client c is subscribed to; the handler     *)
(* passed to client.subscribe runs once per SUBSCRIBE frame and invokes    *)
(* the topic's listeners, the one of useStockWebSocket among them.         *)
(***************************************************************************)
Repeat(x, n) == [i \in 1..n |-> x]

\* variant: only the first listener of the set is invoked
PriceHandlerTargets_FirstOnly(symbol, body) ==
    IF JSONParse(body).ok /\ symbol \in DOMAIN priceUpdateCallbacks
    THEN {Head(priceUpdateCallbacks[symbol])}
    ELSE {}

\* listeners the price handler of `symbol` invokes for `body`
PriceHandlerTargets(symbol, body) ==
    IF JSONParse(body).ok /\ symbol \in DOMAIN priceUpdateCallbacks
    THEN Range(priceUpdateCallbacks[symbol])
    ELSE {}

\* listeners the chart handler of `topicKey` invokes for `body`
ChartHandlerTargets(topicKey, body) ==
    IF JSONParse(body).ok /\ topicKey \in DOMAIN chartUpdateCallbacks
    THEN Range(chartUpdateCallbacks[topicKey])
    ELSE {}

\* the listener of useStockWebSocket, when it is among the listeners
\* invoked with the StockPrice v: setPrice(newPrice), and the page renders
\* with the new wsPrice
ListenerSetsPrice(invoked, v) ==
    IF HookListener \in invoked
    THEN /\ EffectsSettled
         /\ nextTick <= MaxTicks
         /\ ui' = [ui EXCEPT !.wsPrice = Quote(nextTick, v.symbol, v.price)]
         /\ nextTick' = nextTick + 1
         /\ tickLog' = [tickLog EXCEPT !.received = Append(@, ui.timeframe)]
         /\ UNCHANGED <<deps, loads, checks, refreshes, intervals, nextLoad>>
         /\ UNCHANGED marketApi
    ELSE UNCHANGED pageVars

Message(c, topic, body) ==
    /\ microtasks = {}
    /\ clients[c].state = "connected"
    /\ clients[c].subs[topic] > 0
    /\ LET n == clients[c].subs[topic]
           v == JSONParse(body).value
       IN IF topic.kind = "prices"
          THEN /\ priceCalls' = [cb \in Callbacks |->
                     IF cb \in PriceHandlerTargets(topic.symbol, body)
                     THEN Repeat(v, n) ELSE <<>>]
               /\ chartCalls' = NoChartCalls
               /\ ListenerSetsPrice(PriceHandlerTargets(topic.symbol, body), v)
          ELSE /\ chartCalls' = [cb \in ChartCallbacks |->
                     IF cb \in ChartHandlerTargets(
                                   ChartKey(topic.symbol, topic.timeframe), body)
                     THEN Repeat(v, n) ELSE <<>>]
               /\ priceCalls' = NoPriceCalls
               /\ UNCHANGED pageVars
    /\ stateCalls' = NoStateCalls
    /\ lastMessage' = [present |-> TRUE, topic |-> topic, body |-> body]
    /\ UNCHANGED <<client, subscriptions, connected, connectionPromise,
                   priceUpdateCallbacks, chartUpdateCallbacks,
                   connectionStateCallbacks, clients, timers,
                   priceUnsubs, chartUnsubs, stateUnsubs>>
    /\ UNCHANGED microtasks
    /\ UNCHANGED <<viewVars, widgetVars>>

(***************************************************************************)
(* The same handler when listeners throw.  callbacks.forEach(...) sits     *)
(* inside the handler's try block: the first listener that throws ends the *)
(* iteration, the catch logs the error, and the listeners that follow it   *)
(* in the Set's insertion order are not invoked for this frame.            *)
(***************************************************************************)
\* the listeners forEach invokes when those in `throwers` throw: the
\* listeners up to and including the first one that throws
InvokedUntilThrow(callbacks, throwers) ==
    LET stops == {i \in 1..Len(callbacks) : callbacks[i] \in throwers}
        last == IF stops = {} THEN Len(callbacks)
                ELSE CHOOSE i \in stops : \A j \in stops : i <= j
    IN {callbacks[i] : i \in 1..last}

\* listeners the price handler of `symbol` invokes for `body`
PriceHandlerInvoked(symbol, body, throwers) ==
    IF JSONParse(body).ok /\ symbol \in DOMAIN priceUpdateCallbacks
    THEN InvokedUntilThrow(priceUpdateCallbacks[symbol], throwers)
    ELSE {}

\* listeners the chart handler of `topicKey` invokes for `body`
ChartHandlerInvoked(topicKey, body, throwers) ==
    IF JSONParse(body).ok /\ topicKey \in DOMAIN chartUpdateCallbacks
    THEN InvokedUntilThrow(chartUpdateCallbacks[topicKey], throwers)
    ELSE {}

\* a message arrives and the listeners in `throwers` throw when invoked
MessageThrows(c, topic, body, throwers) ==
    /\ microtasks = {}
    /\ clients[c].state = "connected"
    /\ clients[c].subs[topic] > 0
    /\ LET n == clients[c].subs[topic]
           v == JSONParse(body).value
       IN IF topic.kind = "prices"
          THEN /\ priceCalls' = [cb \in Callbacks |->
                     IF cb \in PriceHandlerInvoked(topic.symbol, body, throwers)
                     THEN Repeat(v, n) ELSE <<>>]
               /\ chartCalls' = NoChartCalls
               /\ ListenerSetsPrice(
                      PriceHandlerInvoked(topic.symbol, body, throwers), v)
          ELSE /\ chartCalls' = [cb \in ChartCallbacks |->
                     IF cb \in ChartHandlerInvoked(
                                   ChartKey(topic.symbol, topic.timeframe),
                                   body, throwers)
                     THEN Repeat(v, n) ELSE <<>>]
               /\ priceCalls' = NoPriceCalls
               /\ UNCHANGED pageVars
    /\ stateCalls' = NoStateCalls
    /\ lastMessage' = [present |-> TRUE, topic |-> topic, body |-> body]
    /\ UNCHANGED <<client, subscriptions, connected, connectionPromise,
                   priceUpdateCallbacks, chartUpdateCallbacks,
                   connectionStateCallbacks, clients, timers,
                   priceUnsubs, chartUnsubs, stateUnsubs>>
    /\ UNCHANGED microtasks
    /\ UNCHANGED <<viewVars, widgetVars>>

\* delivery of price messages to listeners of which at least one throws
ThrowNext ==
    \E c \in ClientIds, topic \in PriceTopics, body \in Bodies,
       throwers \in (SUBSET Callbacks) \ {{}} :
          MessageThrows(c, topic, body, throwers)

\* connection lifecycle: the service's own operations and the transport's
\* callbacks.  A callback of the transport, a timer or a frame is a task of
\* its own: it starts only when no continuation is queued.
ConnNext ==
    \/ init
    \/ ReconnectTimer
    \/ reconnect
    \/ disconnect
    \/ \E c \in ClientIds : onConnect(c)
    \/ \E c \in ClientIds : onStompError(c)
    \/ \E c \in ClientIds : onWebSocketError(c)
    \/ \E c \in ClientIds : onDisconnect(c)
    \/ \E c \in ClientIds : ConnectionLost(c)

\* price listeners and the delivery of price messages
PriceNext ==
    \/ \E symbol \in Symbols, cb \in Callbacks : onPriceUpdate(symbol, cb)
    \/ RunMicrotasks
    \/ \E u \in priceUnsubs : UnsubscribePrice(u)
    \/ \E c \in ClientIds, topic \in PriceTopics, body \in Bodies :
          Message(c, topic, body)

\* chart listeners and the delivery of chart messages
ChartNext ==
    \/ \E symbol \in Symbols, tf \in Timeframes, cb \in ChartCallbacks :
          onChartUpdate(symbol, tf, cb)
    \/ RunMicrotasks
    \/ \E u \in chartUnsubs : UnsubscribeChart(u)
    \/ \E c \in ClientIds, topic \in ChartTopics, body \in Bodies :
          Message(c, topic, body)

\* connection state observers
ObserverNext ==
    \/ \E o \in Observers : onConnectionStateChange(o)
    \/ \E o \in Observers : UnsubscribeState(o)

\* the load started for `request` resolves with a series and a quote
LoadCompletes(request, chart, price) ==
    /\ CanResume
    /\ request \in loads
    /\ loads' = loads \ {request}
    /\ LET valid == validPrices(PriceDataset(chart))
           u1 == [ui EXCEPT !.chartData = [chart EXCEPT !.title = Title(request)],
                            !.stockPrice = Quote(0, request.symbol, price)]
           u2 == IF Len(valid) > 0
                 THEN LET timeframeStartPrice == valid[1]
                          timeframeEndPrice == valid[Len(valid)]
                          change == timeframeEndPrice - timeframeStartPrice
                      IN [u1 EXCEPT
                            !.currentTimeframeStartPrice = timeframeStartPrice,
                            !.currentPrice = timeframeEndPrice,
                            !.timeframeChangeMetrics =
                                [priceChange |-> change,
                                 percentChange |->
                                     IF timeframeStartPrice > 0
                                     THEN Percent(change, timeframeStartPrice)
                                     ELSE ZeroPercent,
                                 isPriceUp |-> (change >= 0)]]
                 ELSE u1
       IN ui' = SetState([u2 EXCEPT !.loading = FALSE])
    /\ ViewCommits(ViewNow, ui', ~deps.torn)
    /\ UNCHANGED <<tickLog, deps, checks, refreshes, intervals, nextTick, nextLoad>>
    /\ UNCHANGED marketApi
    /\ UNCHANGED <<wsVars, widgetVars>>

\* the load started for `request` fails
LoadFails(request) ==
    /\ CanResume
    /\ request \in loads
    /\ loads' = loads \ {request}
    /\ ui' = SetState([ui EXCEPT !.error = TRUE, !.loading = FALSE])
    /\ UNCHANGED <<tickLog, deps, checks, refreshes, intervals, nextTick, nextLoad>>
    /\ UNCHANGED marketApi
    /\ UNCHANGED <<wsVars, viewVars, widgetVars>>

\* the "Refresh Price" button, rendered when a quote is shown: refreshPrice
\* of the current render starts its request, whatever is in flight already
ClickRefresh ==
    /\ EffectsSettled
    /\ ~ui.loading /\ ~ui.stockPrice.isNull
    /\ BagCardinality(refreshes) < MaxRefreshes
    /\ refreshes' = refreshes (+) SetToBag({Closure(ui)})
    /\ UNCHANGED <<tickLog, ui, deps, loads, checks, intervals, nextTick, nextLoad>>
    /\ UNCHANGED marketApi
    /\ UNCHANGED <<wsVars, viewVars, widgetVars>>

\* refreshPrice: getCurrentPrice resolves; the closure's baseline decides
RefreshCompletes(closure, price) ==
    /\ CanResume
    /\ BagIn(closure, refreshes)
    /\ refreshes' = refreshes (-) SetToBag({closure})
    /\ LET freshStockPrice == Quote(0, closure.symbol, price)
           m == ChangeMetrics(price, closure.startPrice)
       IN ui' = SetState(IF closure.startPrice > 0
                THEN [ui EXCEPT
                        !.currentPrice = price,
                        !.timeframeChangeMetrics = m,
                        !.stockPrice = WithChange(freshStockPrice,
                                                  m.priceChange, m.percentChange)]
                ELSE [ui EXCEPT !.stockPrice = freshStockPrice])
    /\ UNCHANGED <<tickLog, deps, loads, checks, intervals, nextTick, nextLoad>>
    /\ UNCHANGED marketApi
    /\ UNCHANGED <<wsVars, viewVars, widgetVars>>

\* refreshPrice: getCurrentPrice fails
RefreshFails(closure) ==
    /\ CanResume
    /\ BagIn(closure, refreshes)
    /\ refreshes' = refreshes (-) SetToBag({closure})
    /\ UNCHANGED <<tickLog, ui, deps, loads, checks, intervals, nextTick, nextLoad>>
    /\ UNCHANGED marketApi
    /\ UNCHANGED <<wsVars, viewVars, widgetVars>>

\* setInterval(checkMarketStatusAndUpdatePrices, 30_000) fires
IntervalFires(closure) ==
    /\ EffectsSettled
    /\ closure \in intervals
    /\ BagCardinality(checks) < MaxChecks
    /\ checks' = StartCheck(checks, closure)
    /\ UNCHANGED <<tickLog, ui, deps, loads, refreshes, intervals, nextTick, nextLoad>>
    /\ UNCHANGED marketApi
    /\ UNCHANGED <<wsVars, viewVars, widgetVars>>

\* checkMarketStatusAndUpdatePrices: the market status arrives
CheckCompletes(closure, isOpen) ==
    /\ CanResume
    /\ BagIn(closure, checks)
    /\ (isOpen /\ closure.startPrice > 0) => BagCardinality(refreshes) < MaxRefreshes
    /\ checks' = checks (-) SetToBag({closure})
    /\ ui' = SetState([ui EXCEPT !.isMarketOpen = isOpen])
    /\ refreshes' = IF isOpen /\ closure.startPrice > 0
                    THEN refreshes (+) SetToBag({closure})
                    ELSE refreshes
    /\ UNCHANGED <<tickLog, deps, loads, intervals, nextTick, nextLoad>>
    /\ UNCHANGED marketApi
    /\ UNCHANGED <<wsVars, viewVars, widgetVars>>

\* checkMarketStatusAndUpdatePrices: the status request fails
CheckFails(closure) ==
    /\ CanResume
    /\ BagIn(closure, checks)
    /\ checks' = checks (-) SetToBag({closure})
    /\ UNCHANGED <<tickLog, ui, deps, loads, refreshes, intervals, nextTick, nextLoad>>
    /\ UNCHANGED marketApi
    /\ UNCHANGED <<wsVars, viewVars, widgetVars>>

\* the page is unmounted, and its children with it: the cleanups of
\* useStockWebSocket drop its observer and its listener, the cleanup of
\* the market status effect clears the interval of its last run, the
\* cleanups of StockChart clear its timers, the cleanup of SymbolSearch
\* clears its debounce timer, and the state of OrderForm is gone;
\* deps.torn marks the component as gone
PageUnmount ==
    /\ EffectsSettled
    /\ microtasks = {}
    /\ AfterHook(HookCleanups(HookSvc))
    /\ search' = [search EXCEPT !.searchTimeoutRef = <<"-">>]
    /\ UNCHANGED searchRequests
    /\ order' = FreshForm(order)
    /\ orderCalls' = Detached(orderCalls)
    /\ intervals' = intervals \ {[symbol |-> deps.last.market[1],
                                   startPrice |-> deps.last.market[2]]}
    /\ deps' = [deps EXCEPT !.mounted = FALSE, !.torn = TRUE]
    /\ UNCHANGED <<tickLog, ui, loads, checks, refreshes, nextTick, nextLoad>>
    /\ UNCHANGED marketApi
    /\ ViewUnmounts

\* selections and series loads
LoadNext ==
    \/ PageRunEffects
    \/ \E symbol \in PageSymbols : SelectSymbol(symbol)
    \/ \E timeframe \in PageTimeframes : SelectTimeframe(timeframe)
    \/ \E request \in loads, chart \in ChartResponses, price \in PagePrices :
          LoadCompletes(request, chart, price)
    \/ \E request \in loads : LoadFails(request)

\* the tick the feed sends for a symbol, spelled as the feed spells it
TickBody(symbol, price) == [json |-> TRUE, value |-> StockPriceOf(symbol, price)]

\* a tick arrives on the topic of its symbol and the listener of
\* useStockWebSocket is among those the handler invokes
LiveTick(c, symbol, price) ==
    /\ HookListener \in PriceHandlerTargets(ToUpperCase(symbol),
                                            TickBody(symbol, price))
    /\ Message(c, PriceTopic(ToUpperCase(symbol)), TickBody(symbol, price))

\* live ticks: the connection is established and ticks arrive
TickNext ==
    \/ \E c \in ClientIds : onConnect(c)
    \/ \E c \in ClientIds, symbol \in TickSymbols, price \in PagePrices :
          LiveTick(c, symbol, price)

\* manual refresh and the market status poll
PollNext ==
    \/ ClickRefresh
    \/ \E closure \in BagToSet(refreshes), price \in PagePrices : RefreshCompletes(closure, price)
    \/ \E closure \in BagToSet(refreshes) : RefreshFails(closure)
    \/ \E closure \in intervals : IntervalFires(closure)
    \/ \E closure \in BagToSet(checks), isOpen \in BOOLEAN : CheckCompletes(closure, isOpen)
    \/ \E closure \in BagToSet(checks) : CheckFails(closure)

(***************************************************************************)
(* SymbolSearch (src/src/components/ui/SymbolSearch.tsx).                  *)
(*                                                                         *)
(* search holds the state searchTerm, isSearching, searchResults,          *)
(* showResults, selectedIndex, the debounce timer of searchTimeoutRef      *)
(* (the value it will search for, or NoSearch), the pending blur timers    *)
(* and whether the input has the focus.  searchRequests are the            *)
(* searchStocks calls awaiting their response.                             *)
(***************************************************************************)
\* values of the search input: blanks and lower case among them
SearchTerms ==
    {<<>>, <<" ">>, <<"A">>, <<"A", "B">>, <<" ", "b">>, <<"A", "B", "C">>}

\* symbols of the stocks a search may return
ResultSymbols == {<<"A", "B">>, <<"F">>}

\* result lists a search may return
ResultLists == UNION {[1..n -> ResultSymbols] : n \in 0..MaxResults}

NoSearch == <<"-">>

\* no symbol is handed to onSymbolSelect
NoSelection == <<>>

\* value.length < 2
TooShort(value) == Len(value) < 2

\* str.trim()
Trim(str) ==
    LET kept == {i \in 1..Len(str) : str[i] # " "}
    IN IF kept = {} THEN <<>>
       ELSE LET first == CHOOSE i \in kept : \A j \in kept : i <= j
                last == CHOOSE i \in kept : \A j \in kept : i >= j
            IN SubSeq(str, first, last)

\* searchTerm.toUpperCase().trim()
UpperTrim(term) == Trim(ToUpperCase(term))

SearchInit ==
    /\ search = [searchTerm |-> InitialSymbol, isSearching |-> FALSE,
                 searchResults |-> <<>>, showResults |-> FALSE,
                 selectedIndex |-> -1, searchTimeoutRef |-> NoSearch,
                 blurTimers |-> 0, focused |-> FALSE, nextRequest |-> 1]
    /\ searchRequests = {}

\* SymbolSearch is on the screen with the handlers of the page's last commit
SearchShown == EffectsSettled

\* handleInputBlur, run when the input loses the focus: one more
\* setTimeout(..., 150), which nothing clears
handleInputBlur(sr) ==
    IF sr.focused
    THEN [sr EXCEPT !.focused = FALSE, !.blurTimers = @ + 1]
    ELSE sr

\* bound on the blur timers pending at once
RoomForBlur == search.focused => search.blurTimers < MaxBlurTimers

\* handleSymbolSelect(symbol), the widget's own state; the blur() of the
\* input runs handleInputBlur
handleSymbolSelect(sr, symbol) ==
    handleInputBlur([sr EXCEPT !.searchTerm = symbol,
                               !.showResults = FALSE,
                               !.selectedIndex = -1])

\* the symbol handleSubmit selects
SubmitSelection(sr) ==
    IF sr.selectedIndex >= 0 /\ sr.selectedIndex < Len(sr.searchResults)
    THEN sr.searchResults[sr.selectedIndex + 1]
    ELSE IF Trim(sr.searchTerm) # <<>>
    THEN UpperTrim(sr.searchTerm)
    ELSE NoSelection

\* handleSubmit, the widget's own state
handleSubmit(sr) ==
    LET symbol == SubmitSelection(sr)
        selected == IF symbol # NoSelection THEN handleSymbolSelect(sr, symbol)
                    ELSE sr
    IN [selected EXCEPT !.showResults = FALSE]

\* the symbol the Enter branch of handleKeyDown selects; reading the symbol
\* of searchResults[selectedIndex] throws when there is no such result
EnterSelection(sr) ==
    IF sr.selectedIndex >= 0
    THEN IF sr.selectedIndex < Len(sr.searchResults)
         THEN sr.searchResults[sr.selectedIndex + 1]
         ELSE NoSelection
    ELSE SubmitSelection(sr)

\* onSymbolSelect(symbol) of handleSymbolSelect: the page's setSymbol
onSymbolSelect(symbol) ==
    /\ (symbol # NoSelection /\ symbol # ui.symbol) => RoomForLoad
    /\ ui' = IF symbol = NoSelection THEN ui ELSE [ui EXCEPT !.symbol = symbol]
    /\ UNCHANGED <<tickLog, deps, loads, checks, refreshes, intervals, nextTick, nextLoad>>
    /\ UNCHANGED marketApi

\* the user clicks into the input: handleInputFocus
InputFocus ==
    /\ SearchShown
    /\ ~search.focused
    /\ search' = [search EXCEPT
                    !.focused = TRUE,
                    !.showResults = IF Len(search.searchResults) > 0
                                       /\ Len(search.searchTerm) >= 2
                                    THEN TRUE ELSE @]
    /\ UNCHANGED searchRequests
    /\ UNCHANGED <<wsVars, pageVars, viewVars, orderVars>>

\* the input loses the focus to an element that handleClickOutside does not
\* react to: the Tab key, or the mousedown on a result row that precedes
\* its click
InputBlur ==
    /\ SearchShown
    /\ search.focused
    /\ RoomForBlur
    /\ search' = handleInputBlur(search)
    /\ UNCHANGED searchRequests
    /\ UNCHANGED <<wsVars, pageVars, viewVars, orderVars>>

\* the user changes the input to value: handleSearchChange; clearTimeout
\* drops the pending debounce timer
handleSearchChange(value) ==
    /\ SearchShown
    /\ search.focused
    /\ value # search.searchTerm
    /\ search' = IF TooShort(value)
                 THEN [search EXCEPT !.searchTerm = value,
                                     !.selectedIndex = -1,
                                     !.searchTimeoutRef = NoSearch,
                                     !.searchResults = <<>>,
                                     !.showResults = FALSE,
                                     !.isSearching = FALSE]
                 ELSE [search EXCEPT !.searchTerm = value,
                                     !.selectedIndex = -1,
                                     !.isSearching = TRUE,
                                     !.showResults = TRUE,
                                     !.searchTimeoutRef = value]
    /\ UNCHANGED searchRequests
    /\ UNCHANGED <<wsVars, pageVars, viewVars, orderVars>>

\* the debounce timer fires: stockApi.searchStocks(value) is called
DebounceFires ==
    /\ search.searchTimeoutRef # NoSearch
    /\ search.nextRequest <= MaxSearches
    /\ searchRequests' = searchRequests \cup
           {[id |-> search.nextRequest, value |-> search.searchTimeoutRef]}
    /\ search' = [search EXCEPT !.searchTimeoutRef = NoSearch,
                                !.nextRequest = @ + 1]
    /\ UNCHANGED <<wsVars, pageVars, viewVars, orderVars>>

\* the state after the setters of a timer or a continuation of the widget:
\* those of an unmounted component are ignored
SetSearch(sr) == IF deps.torn THEN search ELSE sr

\* the response of a search arrives
SearchResponds(request, results) ==
    /\ request \in searchRequests
    /\ searchRequests' = searchRequests \ {request}
    /\ search' = SetSearch([search EXCEPT !.searchResults = results,
                                          !.showResults = TRUE,
                                          !.isSearching = FALSE])
    /\ UNCHANGED <<wsVars, pageVars, viewVars, orderVars>>

\* a search fails
SearchFails(request) ==
    /\ request \in searchRequests
    /\ searchRequests' = searchRequests \ {request}
    /\ search' = SetSearch([search EXCEPT !.searchResults = <<>>,
                                          !.showResults = TRUE,
                                          !.isSearching = FALSE])
    /\ UNCHANGED <<wsVars, pageVars, viewVars, orderVars>>

\* handleKeyDown
handleKeyDown(key) ==
    /\ SearchShown
    /\ search.focused
    /\ search.showResults /\ Len(search.searchResults) > 0
    /\ key \in {"Enter", "Escape"} => RoomForBlur
    /\ search' =
         CASE key = "ArrowDown" ->
                [search EXCEPT !.selectedIndex =
                    IF @ < Len(search.searchResults) - 1 THEN @ + 1 ELSE @]
           [] key = "ArrowUp" ->
                [search EXCEPT !.selectedIndex = IF @ > 0 THEN @ - 1 ELSE -1]
           [] key = "Enter" ->
                IF search.selectedIndex >= 0
                THEN IF search.selectedIndex < Len(search.searchResults)
                     THEN handleSymbolSelect(search,
                              search.searchResults[search.selectedIndex + 1])
                     \* searchResults[selectedIndex] is undefined: reading
                     \* its symbol throws and the handler changes nothing
                     ELSE search
                ELSE handleSubmit(search)
           [] key = "Escape" ->
                handleInputBlur([search EXCEPT !.showResults = FALSE,
                                               !.selectedIndex = -1])
    /\ onSymbolSelect(IF key = "Enter" THEN EnterSelection(search) ELSE NoSelection)
    /\ UNCHANGED searchRequests
    /\ UNCHANGED <<wsVars, viewVars, orderVars>>

\* the result rows are rendered
RowsShown == search.showResults /\ ~search.isSearching

\* onMouseEnter of result row index
MouseEnter(index) ==
    /\ SearchShown
    /\ RowsShown
    /\ index < Len(search.searchResults)
    /\ search' = [search EXCEPT !.selectedIndex = index]
    /\ UNCHANGED searchRequests
    /\ UNCHANGED <<wsVars, pageVars, viewVars, orderVars>>

\* onClick of result row index; the mousedown of the click has taken the
\* focus from the input
ClickResult(index) ==
    /\ SearchShown
    /\ RowsShown
    /\ ~search.focused
    /\ index < Len(search.searchResults)
    /\ search' = handleSymbolSelect(search, search.searchResults[index + 1])
    /\ onSymbolSelect(search.searchResults[index + 1])
    /\ UNCHANGED searchRequests
    /\ UNCHANGED <<wsVars, viewVars, orderVars>>

\* the form is submitted: the Search button (disabled while searching), or
\* Enter in the input while handleKeyDown leaves the key alone
ClickSearch ==
    /\ SearchShown
    /\ ~search.isSearching
    /\ RoomForBlur
    /\ search' = handleSubmit(search)
    /\ onSymbolSelect(SubmitSelection(search))
    /\ UNCHANGED searchRequests
    /\ UNCHANGED <<wsVars, viewVars, orderVars>>

\* a mousedown outside the input and the dropdown: handleClickOutside,
\* which acts while the dropdown is rendered, and the input loses the focus
ClickOutside ==
    /\ SearchShown
    /\ search.focused \/ search.showResults
    /\ RoomForBlur
    /\ search' = handleInputBlur(IF search.showResults
                                 THEN [search EXCEPT !.showResults = FALSE,
                                                     !.selectedIndex = -1]
                                 ELSE search)
    /\ UNCHANGED searchRequests
    /\ UNCHANGED <<wsVars, pageVars, viewVars, orderVars>>

\* one timer of handleInputBlur fires
BlurTimerFires ==
    /\ search.blurTimers > 0
    /\ search' = [SetSearch([search EXCEPT !.showResults = FALSE,
                                           !.selectedIndex = -1])
                     EXCEPT !.blurTimers = @ - 1]
    /\ UNCHANGED searchRequests
    /\ UNCHANGED <<wsVars, pageVars, viewVars, orderVars>>

Keys == {"ArrowDown", "ArrowUp", "Enter", "Escape"}

SearchNext ==
    \/ InputFocus
    \/ InputBlur
    \/ \E value \in SearchTerms : handleSearchChange(value)
    \/ DebounceFires
    \/ \E request \in searchRequests, results \in ResultLists :
          SearchResponds(request, results)
    \/ \E request \in searchRequests : SearchFails(request)
    \/ \E key \in Keys : handleKeyDown(key)
    \/ \E index \in 0..(MaxResults - 1) : MouseEnter(index)
    \/ \E index \in 0..(MaxResults - 1) : ClickResult(index)
    \/ ClickSearch
    \/ ClickOutside
    \/ BlurTimerFires

(***************************************************************************)
(* OrderForm (src/src/components/features/orders/OrderForm.tsx) and the    *)
(* modal state of the page that shows it.                                  *)
(*                                                                         *)
(* order holds orderModalOpen of the page (open) and the state step,       *)
(* orderType, limitPrice, loading, error, success and isPriceStale of the  *)
(* form, which has its initial values whenever the form is not shown.      *)
(* orderCalls are the asynchronous handlers in progress: a refreshPrice    *)
(* started by a Refresh button, or a handleSubmitOrder, which first awaits *)
(* refreshPrice (phase "price") and then awaits orderApi.placeOrder (phase *)
(* "place") with the orderType and limitPrice of the render whose button   *)
(* was clicked; live tells whether the form that started the handler is    *)
(* still the one shown.                                                    *)
(***************************************************************************)
OrderTypes == {"MARKET", "LIMIT"}

\* values of the limit price input
LimitInputs == {"", "0", "5"}

OrderInit ==
    /\ order = [open |-> FALSE, step |-> 1, orderType |-> "MARKET",
                limitPrice |-> "", loading |-> FALSE, error |-> FALSE,
                success |-> FALSE, isPriceStale |-> FALSE, nextCall |-> 1]
    /\ orderCalls = {}

\* a handler of the form can run: the form is on the screen and the effects
\* of the last commit have run
FormReady == EffectsSettled /\ FormShown(ui, order)

\* the Buy and Sell buttons of the page: setOrderModalOpen(true)
OpenOrderForm ==
    /\ EffectsSettled
    /\ ~order.open
    /\ order' = [order EXCEPT !.open = TRUE]
    /\ UNCHANGED orderCalls
    /\ UNCHANGED <<wsVars, pageVars, viewVars, searchVars>>

\* onClose: the close button of the header and the Done button of step 4
\* call handleOrderComplete of the page, setOrderModalOpen(false)
CloseOrderForm ==
    /\ FormReady
    /\ order' = [FreshForm(order) EXCEPT !.open = FALSE]
    /\ orderCalls' = Detached(orderCalls)
    /\ UNCHANGED <<wsVars, pageVars, viewVars, searchVars>>

\* onClick={() => setOrderType(...)} of step 1
SelectOrderType(orderType) ==
    /\ FormReady
    /\ order.step = 1
    /\ orderType # order.orderType
    /\ order' = [order EXCEPT !.orderType = orderType]
    /\ UNCHANGED orderCalls
    /\ UNCHANGED <<wsVars, pageVars, viewVars, searchVars>>

\* onChange of the limit price input, rendered in step 2 for LIMIT orders
ChangeLimitPrice(value) ==
    /\ FormReady
    /\ order.step = 2
    /\ order.orderType = "LIMIT"
    /\ value # order.limitPrice
    /\ order' = [order EXCEPT !.limitPrice = value]
    /\ UNCHANGED orderCalls
    /\ UNCHANGED <<wsVars, pageVars, viewVars, searchVars>>

\* variant: the Continue button is never disabled
ContinueDisabled_Never(o) == FALSE

\* disabled={step === 2 && orderType === "LIMIT" && !limitPrice}
ContinueDisabled(o) ==
    o.step = 2 /\ o.orderType = "LIMIT" /\ o.limitPrice = ""

\* the Continue button, rendered while step < 3
ClickContinue ==
    /\ FormReady
    /\ order.step < 3
    /\ ~ContinueDisabled(order)
    /\ order' = [order EXCEPT !.step = @ + 1]
    /\ UNCHANGED orderCalls
    /\ UNCHANGED <<wsVars, pageVars, viewVars, searchVars>>

\* the Back button, rendered while 1 < step < 4
ClickBack ==
    /\ FormReady
    /\ order.step > 1 /\ order.step < 4
    /\ order' = [order EXCEPT !.step = @ - 1]
    /\ UNCHANGED orderCalls
    /\ UNCHANGED <<wsVars, pageVars, viewVars, searchVars>>

\* the callback of setInterval(..., 5000) finds the price older than 30
\* seconds: setIsPriceStale(true)
PriceAges ==
    /\ FormReady
    /\ ~order.isPriceStale
    /\ order' = [order EXCEPT !.isPriceStale = TRUE]
    /\ UNCHANGED orderCalls
    /\ UNCHANGED <<wsVars, pageVars, viewVars, searchVars>>

\* the handler call started by a click, with the closure of the render
NewCall(kind) ==
    [id |-> order.nextCall, kind |-> kind, phase |-> "price",
     orderType |-> order.orderType, limitPrice |-> order.limitPrice,
     live |-> TRUE]

\* the Refresh button of step 2, and the one step 3 renders while the
\* price is stale (both disabled while loading): refreshPrice sets loading
\* and requests the price
ClickRefreshPrice ==
    /\ FormReady
    /\ order.step = 2 \/ (order.step = 3 /\ order.isPriceStale)
    /\ ~order.loading
    /\ order.nextCall <= MaxOrderCalls
    /\ orderCalls' = orderCalls \cup {NewCall("refresh")}
    /\ order' = [order EXCEPT !.loading = TRUE, !.nextCall = @ + 1]
    /\ UNCHANGED <<wsVars, pageVars, viewVars, searchVars>>

\* the Place Order button of step 3 (disabled while loading):
\* handleSubmitOrder sets loading and awaits refreshPrice
ClickPlaceOrder ==
    /\ FormReady
    /\ order.step = 3
    /\ ~order.loading
    /\ order.nextCall <= MaxOrderCalls
    /\ orderCalls' = orderCalls \cup {NewCall("submit")}
    /\ order' = [order EXCEPT !.loading = TRUE, !.nextCall = @ + 1]
    /\ UNCHANGED <<wsVars, pageVars, viewVars, searchVars>>

\* the price request of refreshPrice returns (ok) or fails: refreshPrice
\* stores the price and clears the stale flag, or catches the failure, and
\* its finally clears loading; a handleSubmitOrder awaiting it goes on to
\* call orderApi.placeOrder
PriceReturns(call, ok) ==
    /\ CanResume
    /\ call \in orderCalls
    /\ call.phase = "price"
    /\ order' = IF ~call.live THEN order
                ELSE IF ok
                THEN [order EXCEPT !.loading = FALSE, !.isPriceStale = FALSE]
                ELSE [order EXCEPT !.loading = FALSE, !.error = TRUE]
    /\ orderCalls' = IF call.kind = "submit"
                     THEN (orderCalls \ {call}) \cup {[call EXCEPT !.phase = "place"]}
                     ELSE orderCalls \ {call}
    /\ UNCHANGED <<wsVars, pageVars, viewVars, searchVars>>

\* orderApi.placeOrder returns (ok) or fails
PlaceReturns(call, ok) ==
    /\ CanResume
    /\ call \in orderCalls
    /\ call.phase = "place"
    /\ orderCalls' = orderCalls \ {call}
    /\ order' = IF ~call.live THEN order
                ELSE IF ok
                THEN [order EXCEPT !.success = TRUE, !.step = 4, !.loading = FALSE]
                ELSE [order EXCEPT !.error = TRUE, !.loading = FALSE]
    /\ UNCHANGED <<wsVars, pageVars, viewVars, searchVars>>

OrderNext ==
    \/ OpenOrderForm
    \/ CloseOrderForm
    \/ \E orderType \in OrderTypes : SelectOrderType(orderType)
    \/ \E value \in LimitInputs : ChangeLimitPrice(value)
    \/ ClickContinue
    \/ ClickBack
    \/ PriceAges
    \/ ClickRefreshPrice
    \/ ClickPlaceOrder
    \/ \E call \in orderCalls, ok \in BOOLEAN : PriceReturns(call, ok)
    \/ \E call \in orderCalls, ok \in BOOLEAN : PlaceReturns(call, ok)

Init == WSInit /\ PageInit /\ ViewInit /\ SearchInit /\ OrderInit

\* the same with an api module that may export marketApi, whose getStatus
\* answers the status checks of the poll
PollInit ==
    /\ WSInit
    /\ \E api \in BOOLEAN : PageInitWith(api)
    /\ ViewInit
    /\ SearchInit
    /\ OrderInit

\* the service with its price and chart listeners
Next == ConnNext \/ PriceNext \/ ChartNext

Spec == Init /\ [][Next]_vars

\* the service with its price listeners only
PriceSpecNext == ConnNext \/ PriceNext

PriceSpec == Init /\ [][PriceSpecNext]_vars

\* the service with its chart listeners only
ChartSpecNext == ConnNext \/ ChartNext

ChartSpec == Init /\ [][ChartSpecNext]_vars

\* the service with price listeners that may throw
ThrowSpecNext == ConnNext \/ PriceNext \/ ThrowNext

ThrowSpec == Init /\ [][ThrowSpecNext]_vars

\* the service with its connection state observers
ObserverSpecNext == ConnNext \/ ObserverNext

ObserverSpec == Init /\ [][ObserverSpecNext]_vars

\* the dashboard page with the live feed
PageNext == LoadNext \/ TickNext

PageSpec == Init /\ [][PageNext]_vars

\* the dashboard page with the price poll
\* selections and loads of series of at most one point
PollLoadNext ==
    \/ PageRunEffects
    \/ \E symbol \in PageSymbols : SelectSymbol(symbol)
    \/ \E timeframe \in PageTimeframes : SelectTimeframe(timeframe)
    \/ \E request \in loads, chart \in ShortChartResponses, price \in PagePrices :
          LoadCompletes(request, chart, price)
    \/ \E request \in loads : LoadFails(request)

PollPageNext == PollLoadNext \/ PollNext

PollSpec == PollInit /\ [][PollPageNext]_vars

\* the dashboard page with the price poll and its teardown, loading
\* series of at most one point without a Volume channel; the refreshes the
\* poll starts stay in flight
PollTimerNext ==
    \/ PageRunEffects
    \/ \E symbol \in PageSymbols : SelectSymbol(symbol)
    \/ \E timeframe \in PageTimeframes : SelectTimeframe(timeframe)
    \/ \E request \in loads, chart \in BaselineResponses, price \in PagePrices :
          LoadCompletes(request, chart, price)
    \/ \E request \in loads : LoadFails(request)
    \/ \E closure \in intervals : IntervalFires(closure)
    \/ \E closure \in BagToSet(checks), isOpen \in BOOLEAN : CheckCompletes(closure, isOpen)
    \/ \E closure \in BagToSet(checks) : CheckFails(closure)
    \/ PageUnmount

PollTimerSpec == PollInit /\ [][PollTimerNext]_vars

\* the poll timer alone: the effect that starts it, the events that re-run
\* the effect, the timer's firing and the teardown; status requests end
\* without an answer, so no refresh is started
PollTeardownNext ==
    \/ PageRunEffects
    \/ \E symbol \in PageSymbols : SelectSymbol(symbol)
    \/ \E timeframe \in PageTimeframes : SelectTimeframe(timeframe)
    \/ \E request \in loads, chart \in BaselineResponses, price \in PagePrices :
          LoadCompletes(request, chart, price)
    \/ \E request \in loads : LoadFails(request)
    \/ \E closure \in intervals : IntervalFires(closure)
    \/ \E closure \in BagToSet(checks) : CheckFails(closure)
    \/ PageUnmount

PollTeardownSpec == PollInit /\ [][PollTeardownNext]_vars

\* the order wizard on the page: the load that brings the quote, and the
\* wizard
OrderSpecNext ==
    \/ PageRunEffects
    \/ \E request \in loads : LoadCompletes(request, EmptySeries, 1)
    \/ OrderNext

OrderSpec == Init /\ [][OrderSpecNext]_vars

\* the search box on the committed page
SearchSpecNext == PageRunEffects \/ SearchNext

SearchSpec == Init /\ [][SearchSpecNext]_vars

\* the chart component
ViewSpec == Init /\ [][ViewNext]_vars

\* the chart component with its timers: a pending timer eventually fires,
\* a pending effect eventually runs and a render already queued is
\* committed, while new props arrive only when the parent sends them
TimerFairness ==
    /\ WF_vars(\E t \in drawingTimers : DrawingTimerFires(t))
    /\ WF_vars(\E t \in updateTimers : UpdateTimerFires(t))
    /\ WF_vars(ChartEffectRuns)
    /\ WF_vars(ChartDataCleared)

ViewFairSpec == ViewSpec /\ TimerFairness

\* the dashboard page with the live feed, loading series of at most one
\* point without a Volume channel
TickLoadNext ==
    \/ PageRunEffects
    \/ \E symbol \in PageSymbols : SelectSymbol(symbol)
    \/ \E timeframe \in PageTimeframes : SelectTimeframe(timeframe)
    \/ \E request \in loads, chart \in BaselineResponses, price \in PagePrices :
          LoadCompletes(request, chart, price)
    \/ \E request \in loads : LoadFails(request)

TickSpecNext == TickLoadNext \/ TickNext

TickSpec == Init /\ [][TickSpecNext]_vars

(***************************************************************************)
(* Sanity of the model.                                                    *)
(***************************************************************************)
TypeOK ==
    /\ client \in {NoClient} \cup ClientIds
    /\ subscriptions \subseteq Topics
    /\ microtasks \subseteq Topics
    /\ connected \in BOOLEAN
    /\ connectionPromise \in {NoClient} \cup ClientIds
    /\ DOMAIN priceUpdateCallbacks \subseteq UpperSymbols \cup FeedSymbols
    /\ DOMAIN chartUpdateCallbacks \subseteq ChartKeys
    /\ timers \in 0..MaxTimers
    /\ \A c \in ClientIds : \A t \in Topics : clients[c].subs[t] \in 0..1

(***************************************************************************)
(* Vocabulary of the properties.                                           *)
(***************************************************************************)
\* topics that have at least one registered listener
ListenerTopics ==
    {PriceTopic(k) : k \in DOMAIN priceUpdateCallbacks}
        \cup {ChartTopic(k.symbol, k.timeframe) : k \in DOMAIN chartUpdateCallbacks}

\* clients that were created (activated) so far
CreatedClients == {c \in ClientIds : clients[c].state # "unused"}

\* client c had a STOMP session before, or replaces a client that
\* reconnect() deactivated
Reestablishes(c) ==
    \/ clients[c].promise = "resolved"
    \/ \E d \in ClientIds \ {c} : clients[d].state = "inactive"

\* the service holds a client whose STOMP session is established
TransportConnected ==
    /\ client # NoClient
    /\ connected
    /\ clients[client].state = "connected"

\* nothing is in flight: no connection attempt, no queued continuation, no
\* reconnect timer, no DISCONNECT receipt
Quiescent ==
    /\ timers = 0
    /\ microtasks = {}
    /\ \A c \in ClientIds :
          /\ clients[c].state # "connecting"
          /\ clients[c].thens = {}
          /\ ~clients[c].discPending

\* a step that calls init()
InitCallStep ==
    \/ init
    \/ ReconnectTimer
    \/ \E symbol \in Symbols \ {<<>>}, cb \in Callbacks : onPriceUpdate(symbol, cb)
    \/ \E symbol \in Symbols \ {<<>>}, tf \in Timeframes \ {""}, cb \in ChartCallbacks :
          onChartUpdate(symbol, tf, cb)

\* C1: when a client's session is re-established (a new client after
\* reconnect(), or the same client connecting again after a drop), every
\* topic with a registered listener has exactly one subscription on the new
\* session.
C1_ResubscribedAfterReconnect ==
    [][\A c \in ClientIds :
          (onConnect(c) /\ Reestablishes(c)) =>
              \A t \in ListenerTopics' : clients'[c].subs[t] = 1]_vars

\* C2: while the connection attempt of connectionPromise is in flight or
\* has succeeded, a step that calls init() gets that same promise back and
\* creates no client; one client exists for the promise.
C2_InitCoalesced ==
    [][(/\ connectionPromise # NoClient
        /\ clients[connectionPromise].promise \in {"pending", "resolved"}
        /\ InitCallStep)
          => /\ InitResult = connectionPromise
             /\ connectionPromise' = connectionPromise
             /\ CreatedClients' = CreatedClients
             /\ clients'[connectionPromise].state = clients[connectionPromise].state]_vars

\* a second caller joined the attempt in flight: two listeners were
\* registered, their continuation waits on the promise of the only client
\* created
W_C2 ==
    /\ connectionPromise # NoClient
    /\ clients[connectionPromise].state = "connecting"
    /\ clients[connectionPromise].promise = "pending"
    /\ clients[connectionPromise].thens # {}
    /\ Cardinality(priceUnsubs) = 2
    /\ CreatedClients = {connectionPromise}

\* C3: within one connection, a topic with registered listeners has had
\* exactly one SUBSCRIBE issued for it, whatever the number of listeners.
C3_ExactlyOneSubscribe ==
    (TransportConnected /\ Quiescent) =>
        \A t \in ListenerTopics : clients[client].subs[t] = 1

\* C4: a well-formed message on a price or chart topic invokes, once each,
\* exactly the listeners whose registration on that topic has not been
\* unsubscribed.
C4_DeliveredToRegistered ==
    (lastMessage.present /\ lastMessage.body.json) =>
        /\ \A cb \in Callbacks :
              priceCalls[cb] =
                 IF /\ lastMessage.topic.kind = "prices"
                    /\ [symbol |-> lastMessage.topic.symbol, callback |-> cb]
                          \in priceUnsubs
                 THEN <<lastMessage.body.value>> ELSE <<>>
        /\ \A cb \in ChartCallbacks :
              chartCalls[cb] =
                 IF /\ lastMessage.topic.kind = "charts"
                    /\ [key |-> ChartKey(lastMessage.topic.symbol,
                                         lastMessage.topic.timeframe),
                        callback |-> cb] \in chartUnsubs
                 THEN <<lastMessage.body.value>> ELSE <<>>

\* a message was delivered to the one remaining listener of a topic
W_C4 ==
    /\ lastMessage.present /\ lastMessage.body.json
    /\ lastMessage.topic.kind = "prices"
    /\ Cardinality(priceUnsubs) = 1
    /\ \E cb \in Callbacks : priceCalls[cb] # <<>>
    /\ \E cb \in Callbacks : priceCalls[cb] = <<>>

\* C5: a topic that has a listener while the transport is connected
\* eventually has a transport subscription: once nothing is in flight any
\* more, the subscription exists.
C5_EventuallySubscribed ==
    \A t \in Topics :
        (t \in ListenerTopics /\ TransportConnected /\ Quiescent) =>
            /\ t \in subscriptions
            /\ \E c \in ClientIds :
                  clients[c].state = "connected" /\ clients[c].subs[t] > 0

\* C6: after a STOMP error frame or a WebSocket error, isConnected() is
\* false and every registered observer has been called with false.
C6_ErrorDisconnects ==
    [][\A c \in ClientIds :
          (onStompError(c) \/ onWebSocketError(c)) =>
              /\ ~isConnected'
              /\ \A o \in Range(connectionStateCallbacks) :
                    stateCalls'[o] = <<FALSE>>]_vars

\* C7: registering an observer calls it once with the current flag; every
\* change of the flag calls every registered observer once with the new
\* value; an observer that holds no registration is not called.
C7_ObserverNotified ==
    [][/\ \A o \in Observers :
             onConnectionStateChange(o) => stateCalls'[o] = <<connected>>
       /\ (connected' # connected) =>
             \A o \in stateUnsubs : stateCalls'[o] = <<connected'>>
       /\ \A o \in Observers \ stateUnsubs' : stateCalls'[o] = <<>>]_vars

\* the flag went up and the registered observer was told, the other one,
\* registered before and unsubscribed, was not
W_C7 ==
    /\ connected
    /\ \E o \in stateUnsubs : stateCalls[o] = <<TRUE>>
    /\ \E o \in Observers \ stateUnsubs : stateCalls[o] = <<>>

\* C8: an unsubscribe closure changes neither the service's subscription
\* map nor any client's transport subscriptions, and the map loses an entry
\* only in disconnect().
C8_UnsubscribeKeepsSubscription ==
    [][/\ ((\E u \in priceUnsubs : UnsubscribePrice(u))
              \/ (\E u \in chartUnsubs : UnsubscribeChart(u)))
          => /\ subscriptions' = subscriptions
             /\ \A c \in ClientIds : clients'[c].subs = clients[c].subs
       /\ ~(subscriptions \subseteq subscriptions') => disconnect]_vars

\* the last listener of a topic is gone and its subscription is still held
W_C8 ==
    /\ TransportConnected
    /\ \E t \in Topics :
          /\ t \notin ListenerTopics
          /\ t \in subscriptions
          /\ clients[client].subs[t] = 1

\* C9: a message whose body does not parse invokes no listener and changes
\* no field of the service nor any transport subscription.
C9_MalformedDropped ==
    [][\A c \in ClientIds, topic \in Topics, body \in Bodies :
          (Message(c, topic, body) /\ ~body.json) =>
              /\ priceCalls' = NoPriceCalls
              /\ chartCalls' = NoChartCalls
              /\ stateCalls' = NoStateCalls
              /\ UNCHANGED <<client, subscriptions, connected, connectionPromise,
                             priceUpdateCallbacks, chartUpdateCallbacks,
                             connectionStateCallbacks, clients>>]_vars

\* a malformed message arrived on a chart topic that has a listener
W_C9 ==
    /\ lastMessage.present
    /\ ~lastMessage.body.json
    /\ lastMessage.topic.kind = "charts"
    /\ lastMessage.topic \in ListenerTopics
    /\ chartUnsubs # {}

\* C10: whenever the baseline start price is 0, the change metrics are 0.
C10_ZeroBaselineZeroChange ==
    ui.currentTimeframeStartPrice = 0 =>
        /\ ui.timeframeChangeMetrics.priceChange = 0
        /\ ui.timeframeChangeMetrics.percentChange.num = 0

\* a commit in which the tick effect runs and the load effect does not: the
\* commit that follows the arrival of a tick
TickCommit ==
    /\ deps.mounted
    /\ DepsOf(ui).load = deps.last.load
    /\ DepsOf(ui).tick # deps.last.tick
    /\ PageRunEffects

\* the fields a live tick may change
TickFields(u) ==
    <<u.currentPrice, u.timeframeChangeMetrics, u.stockPrice, u.chartData>>

\* C11: the arrival of a tick changes none of currentPrice, the change
\* metrics, the stored quote and the series, and the commit that processes
\* it changes none of them unless the tick's symbol equals the active symbol
\* ignoring case and the baseline start price is greater than 0.
C11_TickAcceptedOnlyWithBaseline ==
    [][/\ (\E c \in ClientIds, symbol \in TickSymbols, price \in PagePrices :
              LiveTick(c, symbol, price))
           => TickFields(ui') = TickFields(ui)
       /\ (/\ TickCommit
           /\ ~(/\ ~ui.wsPrice.isNull
                /\ ToUpperCase(ui.wsPrice.symbol) = ToUpperCase(ui.symbol)
                /\ ui.currentTimeframeStartPrice > 0))
           => TickFields(ui') = TickFields(ui)]_vars

\* a tick for the active symbol was processed while no baseline existed:
\* the series loaded without a valid price, and nothing moved
W_C11 ==
    /\ EffectsSettled
    /\ ~ui.wsPrice.isNull
    /\ ToUpperCase(ui.wsPrice.symbol) = ToUpperCase(ui.symbol)
    /\ ui.currentTimeframeStartPrice = 0
    /\ ~ui.loading
    /\ ~ui.chartData.isNull
    /\ ui.currentPrice = 0
    /\ ui.stockPrice.id = 0

\* C12: the commit that processes an accepted tick leaves currentPrice at
\* the tick price, priceChange at tick price minus start price,
\* percentChange at priceChange / startPrice * 100, isPriceUp true exactly
\* when priceChange >= 0, and the start price as it was.
C12_TickMetrics ==
    [][(/\ TickCommit
        /\ ~ui.wsPrice.isNull
        /\ ToUpperCase(ui.wsPrice.symbol) = ToUpperCase(ui.symbol)
        /\ ui.currentTimeframeStartPrice > 0)
          => /\ ui'.currentPrice = ui.wsPrice.price
             /\ ui'.timeframeChangeMetrics.priceChange =
                    ui.wsPrice.price - ui.currentTimeframeStartPrice
             /\ ui'.timeframeChangeMetrics.percentChange.num =
                    ui'.timeframeChangeMetrics.priceChange * 100
             /\ ui'.timeframeChangeMetrics.percentChange.den =
                    ui.currentTimeframeStartPrice
             /\ ui'.timeframeChangeMetrics.isPriceUp =
                    (ui'.timeframeChangeMetrics.priceChange >= 0)
             /\ ui'.currentTimeframeStartPrice = ui.currentTimeframeStartPrice]_vars

\* a tick below the baseline was accepted: the change is negative and the
\* direction flag is down
W_C12 ==
    /\ EffectsSettled
    /\ ~ui.wsPrice.isNull
    /\ ui.currentTimeframeStartPrice > ui.wsPrice.price
    /\ ui.currentPrice = ui.wsPrice.price
    /\ ui.timeframeChangeMetrics.priceChange < 0
    /\ ~ui.timeframeChangeMetrics.isPriceUp
    /\ ui.stockPrice.id = ui.wsPrice.id

\* the strictly positive, non-NaN values of a series' Price channel
PositivePrices(chart) ==
    SelectSeq(IF chart.hasPrice THEN chart.Price ELSE <<>>,
              LAMBDA v : v # NaN /\ v > 0)

\* C13: when the load for the active symbol and timeframe completes, the
\* start price is the first and the current price the last strictly
\* positive, non-NaN value of the Price channel, with the metrics derived
\* from that pair; without such a value the start price, the current price
\* and the metrics are 0.
C13_LoadBaseline ==
    [][\A request \in loads, chart \in ChartResponses, price \in PagePrices :
          (/\ LoadCompletes(request, chart, price)
           /\ request.symbol = ui.symbol
           /\ request.timeframe = ui.timeframe)
            => LET valid == PositivePrices(chart)
               IN IF Len(valid) > 0
                  THEN /\ ui'.currentTimeframeStartPrice = valid[1]
                       /\ ui'.currentPrice = valid[Len(valid)]
                       /\ ui'.timeframeChangeMetrics.priceChange =
                              valid[Len(valid)] - valid[1]
                       /\ ui'.timeframeChangeMetrics.percentChange =
                              Percent(valid[Len(valid)] - valid[1], valid[1])
                       /\ ui'.timeframeChangeMetrics.isPriceUp =
                              (valid[Len(valid)] >= valid[1])
                  ELSE /\ ui'.currentTimeframeStartPrice = 0
                       /\ ui'.currentPrice = 0
                       /\ ui'.timeframeChangeMetrics = ZeroMetrics]_vars

\* C14: every channel of the held series has as many elements as the
\* series has labels.
C14_ChannelsAligned ==
    ~ui.chartData.isNull =>
        /\ ui.chartData.hasPrice =>
               Len(ui.chartData.Price) = Len(ui.chartData.labels)
        /\ ui.chartData.hasVolume =>
               Len(ui.chartData.Volume) = Len(ui.chartData.labels)

\* const actualDisplayCount = Math.min(displayedPointCount, allData.length)
actualDisplayCount(v) ==
    IF v.chartData.isNull THEN 0 ELSE Min(v.displayedPointCount, v.chartData.n)

\* C15: while the chart keeps showing the same series the number of visible
\* points never decreases, and whenever a series is shown and the drawing
\* flag is false all N points of the series are visible.
C15_VisibleCountMonotone ==
    [][/\ (view.mounted /\ ~view.chartData.isNull
            /\ view'.chartData = view.chartData)
           => actualDisplayCount(view') >= actualDisplayCount(view)
       /\ (~view'.chartData.isNull /\ ~view'.isDrawing)
           => actualDisplayCount(view') = view'.chartData.n]_vars

\* C16: while the animation of the held series is in progress, after its
\* k-th timed step min(8 + 6k, N) points are shown: 8 before the first
\* timed step, then 14, 20, ...
C16_AnimationSchedule ==
    \A t \in drawingTimers :
        (view.mounted /\ ~view.chartData.isNull /\ t.chart = view.chartData.id)
        => view.displayedPointCount =
               Min(INITIAL_POINTS + POINTS_PER_STEP * t.steps, view.chartData.n)


\* C17: once the drawing flag is set it eventually becomes false again with
\* every point of the held series visible (or the component is unmounted),
\* whatever live appends and reloads arrive in between.
C17_AnimationSettles ==
    (view.mounted /\ view.isDrawing)
    ~> (\/ ~view.mounted
        \/ ~view.isDrawing /\ actualDisplayCount(view) = view.chartData.n)


\* the step runs the chart data effect for a series that is 1 to 3 points
\* longer than the previous one
LiveAppendStep ==
    /\ view.mounted
    /\ view.pending /\ ~view'.pending
    /\ ~view.prevChartDataRef.isNull
    /\ ~view.chartData.isNull
    /\ view.chartData.n - view.prevChartDataRef.n \in 1..LIVE_UPDATE_MAX_POINTS

\* C18: a live append sets the live-update indicator, and a set indicator
\* is eventually cleared again (or the component is unmounted) whatever
\* series arrives next.
C18_IndicatorClears ==
    /\ [][LiveAppendStep => view'.wasUpdated]_vars
    /\ (view.mounted /\ view.wasUpdated) ~> (~view.mounted \/ ~view.wasUpdated)


\* C19: at most one animation step timer is pending, every pending step
\* timer belongs to the animation of the series now held by the mounted
\* component, and a step timer that fires is the one of the series now
\* held: no timer of a replaced series or of an unmounted component is
\* left to change the visible-point count.
C19_NoLeakedStepTimer ==
    /\ [](/\ Cardinality(drawingTimers) <= 1
          /\ \A t \in drawingTimers :
                /\ view.mounted
                /\ ~view.chartData.isNull
                /\ t.chart = view.chartData.id
                /\ t = view.drawingTimerRef)
    /\ [][\A t \in drawingTimers :
            DrawingTimerFires(t) => (view.mounted /\ t.chart = view.chartData.id)]_vars

\* C20: for the series held, the value-axis range is the same for every
\* visible-point count from 0 to the length of the series, and it is the
\* range of all points of the series.
C20_AxisFromAllData ==
    LET whole == DomainOf(allData(view.chartData))
    IN \A k \in 0..view.chartData.n : yAxisDomain(view.chartData, k) = whole

\* an animation shows 14 of 25 rising prices: the visible slice alone
\* would give another range than the whole series
W_C20 ==
    /\ view.mounted
    /\ view.isDrawing
    /\ view.chartData.Price = ShapePrices("rising", 25)
    /\ view.chartData.n = 25
    /\ view.displayedPointCount = 14
    /\ DomainOf(displayed(view.chartData, view.displayedPointCount))
           # yAxisDomain(view.chartData, view.displayedPointCount)
    /\ yAxisDomain(view.chartData, view.displayedPointCount) = <<0, 2692>>


\* C22: the poll interval in use is the short one while the market is
\* flagged open and the long one while it is flagged closed: when the flag
\* differs between two settled states of the running poll, the interval in
\* use differs as well.
C22_IntervalFollowsMarket ==
    [][(/\ EffectsSettled /\ intervals # {}
        /\ EffectsSettled' /\ intervals' # {}
        /\ ui'.isMarketOpen # ui.isMarketOpen)
       => DelaysInUse' # DelaysInUse]_vars

\* C23: at most one poll interval is active, and none once the page is
\* unmounted, whatever selections, baseline changes and renders came
\* before.
C23_OnePollTimer ==
    /\ Cardinality(intervals) <= 1
    /\ deps.torn => intervals = {}

\* the page was unmounted after the poll had been reconfigured for a new
\* baseline, with a status check of the poll still in flight
W_C23 ==
    /\ deps.torn
    /\ deps.last.market[2] > 0
    /\ checks # EmptyBag
    /\ intervals = {}


\* the commit runs the tick effect and the effect applies the tick it holds
TickApplied ==
    /\ PageRunEffects
    /\ ~deps.mounted \/ DepsOf(ui).tick # deps.last.tick
    /\ TickAccepted(ui)

\* C26: a live tick is applied at most once, applying it adds at most one
\* point to the series, and a tick is never appended to a series while
\* another timeframe is selected than when the tick was received.
C26_TickAppliedOnce ==
    [][TickApplied =>
          /\ ui.wsPrice.id \notin tickLog.applied
          /\ ~ui'.chartData.isNull
                => /\ Len(ui'.chartData.labels) <= Len(ui.chartData.labels) + 1
                   /\ ui.timeframe = tickLog.received[ui.wsPrice.id]]_vars


\* C27: once every load has completed (without an error shown), the page
\* is not loading and holds the series and the quote of the symbol and
\* timeframe now selected, with the baseline taken from that series,
\* whatever order the responses arrived in.
C27_LatestSelectionWins ==
    (EffectsSettled /\ loads = {} /\ ~ui.error)
    => /\ ~ui.loading
       /\ ~ui.chartData.isNull
       /\ ui.chartData.title = <<ui.symbol, ui.timeframe>>
       /\ ~ui.stockPrice.isNull
       /\ ToUpperCase(ui.stockPrice.symbol) = ToUpperCase(ui.symbol)
       /\ LET valid == PositivePrices(ui.chartData)
          IN ui.currentTimeframeStartPrice = IF Len(valid) > 0 THEN valid[1] ELSE 0


\* C21: whenever the search term has fewer than 2 characters, no debounced
\* search is pending and no search request is in flight for it, the result
\* list is empty and the dropdown is hidden.
C21_ShortTermNoSearch ==
    TooShort(search.searchTerm)
    => /\ search.searchTimeoutRef = NoSearch
       /\ \A request \in searchRequests : request.value # search.searchTerm
       /\ search.searchResults = <<>>
       /\ ~search.showResults

\* C29: the selected index of the dropdown is -1 or the index of an
\* existing result.
C29_SelectedIndexInRange ==
    /\ search.selectedIndex >= -1
    /\ search.selectedIndex < Len(search.searchResults)


\* C24: an order request of type LIMIT is only ever submitted with a limit
\* price entered, and the wizard is never on the confirmation step, the
\* step that Continue reaches after the details step, with order type
\* LIMIT and an empty limit price.
C24_LimitNeedsPrice ==
    /\ \A call \in orderCalls :
          (call.kind = "submit" /\ call.orderType = "LIMIT") => call.limitPrice # ""
    /\ (order.step = 3 /\ order.orderType = "LIMIT") => order.limitPrice # ""

\* a LIMIT order with a limit price is being placed, after the user went
\* back from the confirmation step
W_C24 ==
    /\ FormShown(ui, order)
    /\ order.step < 3
    /\ \E call \in orderCalls :
          /\ call.live
          /\ call.phase = "place"
          /\ call.orderType = "LIMIT"
          /\ call.limitPrice = "5"

\* C28: at most one order placement is in progress, and while one started
\* by the form on the screen is in progress, from the click on Place Order
\* to the placement response, loading is true (the Place Order button is
\* disabled).
C28_OnePlacement ==
    LET submits == {call \in orderCalls : call.kind = "submit"}
    IN /\ Cardinality(submits) <= 1
       /\ (\E call \in submits : call.live) => order.loading

\* C25: at most one transport client is active (activated and not yet
\* deactivated) at any time; in particular reconnect() deactivates the client
\* of a connection attempt that is still in flight.
ActiveClients == {c \in ClientIds : IsActive(clients[c])}

C25_OneActiveClient == Cardinality(ActiveClients) <= 1

\* C30: an exception thrown by one listener while it handles a message does
\* not prevent the same message from being delivered to the other listeners
\* registered on that topic: after every well-formed message, every listener
\* holding a registration on the message's topic has been invoked.
C30_ThrowDoesNotBlock ==
    (lastMessage.present /\ lastMessage.body.json) =>
        /\ \A u \in priceUnsubs :
              (/\ lastMessage.topic.kind = "prices"
               /\ u.symbol = lastMessage.topic.symbol)
                 => priceCalls[u.callback] # <<>>
        /\ \A u \in chartUnsubs :
              (/\ lastMessage.topic.kind = "charts"
               /\ u.key = ChartKey(lastMessage.topic.symbol,
                                   lastMessage.topic.timeframe))
                 => chartCalls[u.callback] # <<>>

========================================================================
